---------------------------- MODULE Spec2Model ----------------------------
(***************************************************************************)
(* A model of blockimgdiff.py (xpirt/img2sdat): the transfer planner and  *)
(* emitter of block-based OTA packages.                                    *)
(*                                                                         *)
(* A RangeSet is modelled by the set of block numbers it holds; the        *)
(* rangelib module is not part of the sources at hand, so its operations   *)
(* follow their documented meaning.  Transfers are records held in by_id,  *)
(* indexed by id + 1; self.transfers is the sequence of ids in the current *)
(* order.                                                                  *)
(***************************************************************************)
EXTENDS Integers, Sequences, FiniteSets, TLC

(***************************************************************************)
(* Bounds of the model.                                                    *)
(***************************************************************************)
\* tgt.total_blocks ranges over TgtBlocks - 1 .. TgtBlocks
TgtBlocks == 3
\* src.total_blocks
SrcBlocks == 3
\* iterations of the splitting loop of AddTransfer that the model follows
MaxPieces == 4
\* the longest patch the differ returns, in bytes
MaxPatchLen == 2

(***************************************************************************)
(* Program constants.                                                      *)
(***************************************************************************)
blocksize == 4096
zero_blocks_limit == 1024

(***************************************************************************)
(* Generic helpers.                                                        *)
(***************************************************************************)
Max(S) == CHOOSE x \in S : \A y \in S : y <= x
Min(S) == CHOOSE x \in S : \A y \in S : x <= y
Range(f) == {f[i] : i \in DOMAIN f}


\* the elements of a finite set of integers, ascending
RECURSIVE SortedSeq(_)
SortedSeq(S) ==
    IF S = {} THEN << >> ELSE <<Min(S)>> \o SortedSeq(S \ {Min(S)})

\* every sequence that lists each element of S exactly once
Perms(S) ==
    {p \in [1..Cardinality(S) -> S] : \A x \in S : \E i \in DOMAIN p : p[i] = x}

(***************************************************************************)
(* RangeSet algebra (rangelib.RangeSet), on sets of block numbers.         *)
(***************************************************************************)
EmptyRangeSet == {}
RangeOf(s, e) == s .. (e - 1)
Union(a, b) == a \cup b
Intersect(a, b) == a \cap b
Subtract(a, b) == a \ b
Overlaps(a, b) == a \cap b # {}
Size(a) == Cardinality(a)
\* first(n): the n lowest blocks of a, all of a when it has no more than n
First(a, n) == {b \in a : Cardinality({c \in a : c < b}) < n}
\* map_within(sub): positions of the blocks of sub within the flattened parent
MapWithin(parent, sub) == {Cardinality({c \in parent : c < b}) : b \in sub}
\* the monotonic attribute: an empty RangeSet is not monotonic; the file
\* maps of the model list their ranges in ascending order
Monotonic(a) == a # {}

(***************************************************************************)
(* Names are sequences of characters.                                      *)
(***************************************************************************)
Digits == {"0", "1", "2", "3", "4", "5", "6", "7", "8", "9"}
ZERO == <<"_", "_", "Z", "E", "R", "O">>
COPY == <<"_", "_", "C", "O", "P", "Y">>
\* src_name of a transfer that has no source (Python's None)
NoName == <<"N", "o", "n", "e">>

\* os.path.basename
Basename(k) ==
    LET slashes == {i \in 1..Len(k) : k[i] = "/"}
        last == IF slashes = {} THEN 0 ELSE Max(slashes)
    IN SubSeq(k, last + 1, Len(k))

\* re.sub("[0-9]+", "#", b)
RECURSIVE SubDigits(_, _)
SubDigits(b, i) ==
    IF i > Len(b) THEN << >>
    ELSE IF b[i] \in Digits
         THEN IF i > 1 /\ b[i - 1] \in Digits
              THEN SubDigits(b, i + 1)
              ELSE <<"#">> \o SubDigits(b, i + 1)
         ELSE <<b[i]>> \o SubDigits(b, i + 1)
NumPattern(b) == SubDigits(b, 1)

\* "%d" % n, for n >= 0
DigitChars == <<"0", "1", "2", "3", "4", "5", "6", "7", "8", "9">>
RECURSIVE Decimal(_)
Decimal(n) ==
    IF n < 10 THEN <<DigitChars[n + 1]>>
    ELSE Decimal(n \div 10) \o <<DigitChars[(n % 10) + 1]>>

(***************************************************************************)
(* Dictionaries are functions; file maps are sequences of [name, ranges]   *)
(* in iteration order.                                                     *)
(***************************************************************************)
EmptyDict == [k \in {} |-> 0]
DictSet(d, k, v) == [x \in DOMAIN d \cup {k} |-> IF x = k THEN v ELSE d[x]]
DictDel(d, k) == [x \in DOMAIN d \ {k} |-> d[x]]

FileMapHas(fm, name) == \E i \in DOMAIN fm : fm[i].name = name
FileMapGet(fm, name) == fm[CHOOSE i \in DOMAIN fm : fm[i].name = name].ranges
FileMapGetOr(fm, name, default) ==
    IF FileMapHas(fm, name) THEN FileMapGet(fm, name) ELSE default

(***************************************************************************)
(* State.                                                                  *)
(***************************************************************************)
VARIABLES
    version,            \* self.version
    OPTIONS,            \* common.OPTIONS: cache_size (<< >> is None, <<n>> is n
                        \* bytes) and stash_threshold (<<num, den>>)
    py3,                \* the interpreter honours HeapItem.__bool__ (Python 3)
    src, tgt,           \* the two images
    src_basenames,      \* self.src_basenames
    src_numpatterns,    \* self.src_numpatterns
    by_id,              \* the Transfer objects, by_id[id + 1]
    transfers,          \* self.transfers, as the sequence of ids
    pc,                 \* the statement of Compute that runs next
    failure,            \* the assertion or exception that ended the run
    ft,                 \* FindTransfers: index of the next target domain
    at,                 \* locals of the running AddTransfer call
    vs,                 \* locals of FindVertexSequence
    wt,                 \* locals of WriteTransfers and self.touched_src_ranges
    threads,            \* self.threads
    cp,                 \* locals of ComputePatches and of its workers
    rs,                 \* locals of ReviseStashSize
    files               \* the files prefix.new.dat, .patch.dat, .transfer.list

vars == <<version, OPTIONS, py3, src, tgt, src_basenames, src_numpatterns,
          by_id, transfers, pc, failure, ft, at, vs, wt, threads, cp, rs, files>>

inputs == <<version, OPTIONS, py3, src, tgt, threads>>

cache_size == OPTIONS.cache_size[1]
CacheConfigured == OPTIONS.cache_size # << >>
ThrNum == OPTIONS.stash_threshold[1]
ThrDen == OPTIONS.stash_threshold[2]

Ids == {by_id[i].id : i \in DOMAIN by_id}
Xf(id) == by_id[id + 1]

(***************************************************************************)
(* class Transfer                                                          *)
(***************************************************************************)
\* Transfer.__init__: the new object, with id = len(by_id)
Transfer(tgt_name, src_name, tgt_ranges, src_ranges, style, ById) ==
    [id |-> Len(ById),
     tgt_name |-> tgt_name,
     src_name |-> src_name,
     tgt_ranges |-> tgt_ranges,
     src_ranges |-> src_ranges,
     style |-> style,
     intact |-> Monotonic(tgt_ranges) /\ Monotonic(src_ranges),
     goes_before |-> << >>,
     goes_after |-> << >>,
     stash_before |-> << >>,
     use_stash |-> << >>,
     order |-> 0 - 1,
     patch_start |-> 0 - 1,
     patch_len |-> 0 - 1]

\* sum(sr.size() for (_, sr) in stashes)
RECURSIVE StashSize(_)
StashSize(stashes) ==
    IF stashes = << >> THEN 0
    ELSE Size(Head(stashes)[2]) + StashSize(Tail(stashes))

NetStashChange(xf) == StashSize(xf.stash_before) - StashSize(xf.use_stash)

\* ConvertToNew, past its assertion that the style is not yet "new"
ConvertToNew(xf) ==
    [xf EXCEPT !.use_stash = << >>, !.style = "new", !.src_ranges = EmptyRangeSet]

(***************************************************************************)
(* AbbreviateSourceNames                                                   *)
(***************************************************************************)
RECURSIVE AbbreviateFrom(_, _, _)
AbbreviateFrom(fm, i, d) ==
    IF i > Len(fm) THEN d
    ELSE LET k == fm[i].name
             b == Basename(k)
         IN AbbreviateFrom(fm, i + 1,
                [basenames |-> DictSet(d.basenames, b, k),
                 numpatterns |-> DictSet(d.numpatterns, NumPattern(b), k)])

\* AbbreviateSourceNames in which the first domain of a basename wins
AbbreviateKeepFirst(fm) ==
    AbbreviateFrom([i \in DOMAIN fm |-> fm[Len(fm) + 1 - i]], 1,
                   [basenames |-> EmptyDict, numpatterns |-> EmptyDict])

AbbreviateSourceNamesResult(fm) ==
    AbbreviateFrom(fm, 1, [basenames |-> EmptyDict, numpatterns |-> EmptyDict])

(***************************************************************************)
(* FindTransfers.AddTransfer.  A call is a record of its arguments and     *)
(* locals together with the list it appends to; AddTransferStep runs it up *)
(* to the next loop head or to its return.                                 *)
(***************************************************************************)
\* int(cache_size * split_threshold / self.tgt.blocksize), split_threshold 0.125
max_blocks_per_transfer == (cache_size * 125) \div (1000 * blocksize)

AddTransferCall(tgt_name, src_name, tgt_ranges, src_ranges, style, split) ==
    [pc |-> "entry", tgt_name |-> tgt_name, src_name |-> src_name,
     tgt_ranges |-> tgt_ranges, src_ranges |-> src_ranges, style |-> style,
     split |-> split, pieces |-> 0]

AddTransferIdle ==
    [pc |-> "return", tgt_name |-> << >>, src_name |-> << >>,
     tgt_ranges |-> {}, src_ranges |-> {}, style |-> "new",
     split |-> FALSE, pieces |-> 0]

\* "%s-%d" % (name, pieces)
SplitName(name, pieces) == name \o <<"-">> \o Decimal(pieces)

\* the loop condition of the splitting loop
SplitLoopGuard(c) ==
    /\ Size(c.tgt_ranges) > max_blocks_per_transfer
    /\ Size(c.src_ranges) > max_blocks_per_transfer

\* from the entry of AddTransfer to the head of the splitting loop
AddTransferEntry(c, ById) ==
    IF c.style # "diff" \/ ~c.split
    THEN [at |-> [c EXCEPT !.pc = "return"],
          by_id |-> Append(ById, Transfer(c.tgt_name, c.src_name, c.tgt_ranges,
                                          c.src_ranges, c.style, ById))]
    ELSE IF ~CacheConfigured
    THEN [at |-> [c EXCEPT !.pc = "TypeError"], by_id |-> ById]
    ELSE IF /\ Size(c.tgt_ranges) <= max_blocks_per_transfer
            /\ Size(c.src_ranges) <= max_blocks_per_transfer
    THEN [at |-> [c EXCEPT !.pc = "return"],
          by_id |-> Append(ById, Transfer(c.tgt_name, c.src_name, c.tgt_ranges,
                                          c.src_ranges, c.style, ById))]
    ELSE [at |-> [c EXCEPT !.pc = "loop"], by_id |-> ById]

\* one iteration of the splitting loop
AddTransferLoop(c, ById) ==
    LET tgt_first == First(c.tgt_ranges, max_blocks_per_transfer)
        src_first == First(c.src_ranges, max_blocks_per_transfer)
    IN [at |-> [c EXCEPT !.tgt_ranges = Subtract(c.tgt_ranges, tgt_first),
                         !.src_ranges = Subtract(c.src_ranges, src_first),
                         !.pieces = c.pieces + 1],
        by_id |-> Append(ById, Transfer(SplitName(c.tgt_name, c.pieces),
                                        SplitName(c.src_name, c.pieces),
                                        tgt_first, src_first, c.style, ById))]

\* AddTransferRest that forgets the remaining blocks
AddTransferRestDropped(c, ById) ==
    [at |-> [c EXCEPT !.pc = "return"], by_id |-> ById]

\* "Handle remaining blocks."
AddTransferRest(c, ById) ==
    IF Size(c.tgt_ranges) > 0 \/ Size(c.src_ranges) > 0
    THEN IF Size(c.tgt_ranges) > 0 /\ Size(c.src_ranges) > 0
         THEN [at |-> [c EXCEPT !.pc = "return"],
               by_id |-> Append(ById, Transfer(SplitName(c.tgt_name, c.pieces),
                                               SplitName(c.src_name, c.pieces),
                                               c.tgt_ranges, c.src_ranges,
                                               c.style, ById))]
         ELSE [at |-> [c EXCEPT !.pc = "AssertionError"], by_id |-> ById]
    ELSE [at |-> [c EXCEPT !.pc = "return"], by_id |-> ById]

AddTransferStep(c, ById) ==
    IF c.pc = "entry" THEN AddTransferEntry(c, ById)
    ELSE IF SplitLoopGuard(c) THEN AddTransferLoop(c, ById)
    ELSE AddTransferRest(c, ById)

AddTransferDone(c) == c.pc \in {"return", "TypeError", "AssertionError", "diverges"}

\* a whole call; a loop still running after MaxPieces iterations never ends
RECURSIVE AddTransfer(_, _)
AddTransfer(c, ById) ==
    IF AddTransferDone(c) THEN [at |-> c, by_id |-> ById]
    ELSE IF c.pc = "loop" /\ SplitLoopGuard(c) /\ c.pieces >= MaxPieces
    THEN [at |-> [c EXCEPT !.pc = "diverges"], by_id |-> ById]
    ELSE LET r == AddTransferStep(c, ById) IN AddTransfer(r.at, r.by_id)

(***************************************************************************)
(* FindTransfers                                                           *)
(***************************************************************************)
\* FindTransfersCall that looks the basename up before the exact path
FindTransfersCallBasenameFirst(tgt_fn, tgt_ranges) ==
    LET b == Basename(tgt_fn)
        p == NumPattern(b)
    IN IF tgt_fn = ZERO
       THEN AddTransferCall(tgt_fn, ZERO, tgt_ranges,
                            FileMapGetOr(src.file_map, ZERO, EmptyRangeSet),
                            "zero", FALSE)
       ELSE IF tgt_fn = COPY
       THEN AddTransferCall(tgt_fn, NoName, tgt_ranges, EmptyRangeSet, "new", FALSE)
       ELSE IF b \in DOMAIN src_basenames
       THEN AddTransferCall(tgt_fn, src_basenames[b], tgt_ranges,
                            FileMapGet(src.file_map, src_basenames[b]),
                            "diff", version >= 3)
       ELSE IF FileMapHas(src.file_map, tgt_fn)
       THEN AddTransferCall(tgt_fn, tgt_fn, tgt_ranges,
                            FileMapGet(src.file_map, tgt_fn), "diff", version >= 3)
       ELSE IF p \in DOMAIN src_numpatterns
       THEN AddTransferCall(tgt_fn, src_numpatterns[p], tgt_ranges,
                            FileMapGet(src.file_map, src_numpatterns[p]),
                            "diff", version >= 3)
       ELSE AddTransferCall(tgt_fn, NoName, tgt_ranges, EmptyRangeSet, "new", FALSE)

\* the AddTransfer call made for one domain of the target file map
FindTransfersCall(tgt_fn, tgt_ranges) ==
    LET b == Basename(tgt_fn)
        p == NumPattern(b)
    IN IF tgt_fn = ZERO
       THEN AddTransferCall(tgt_fn, ZERO, tgt_ranges,
                            FileMapGetOr(src.file_map, ZERO, EmptyRangeSet),
                            "zero", FALSE)
       ELSE IF tgt_fn = COPY
       THEN AddTransferCall(tgt_fn, NoName, tgt_ranges, EmptyRangeSet, "new", FALSE)
       ELSE IF FileMapHas(src.file_map, tgt_fn)
       THEN AddTransferCall(tgt_fn, tgt_fn, tgt_ranges,
                            FileMapGet(src.file_map, tgt_fn), "diff", version >= 3)
       ELSE IF b \in DOMAIN src_basenames
       THEN AddTransferCall(tgt_fn, src_basenames[b], tgt_ranges,
                            FileMapGet(src.file_map, src_basenames[b]),
                            "diff", version >= 3)
       ELSE IF p \in DOMAIN src_numpatterns
       THEN AddTransferCall(tgt_fn, src_numpatterns[p], tgt_ranges,
                            FileMapGet(src.file_map, src_numpatterns[p]),
                            "diff", version >= 3)
       ELSE AddTransferCall(tgt_fn, NoName, tgt_ranges, EmptyRangeSet, "new", FALSE)

\* the loop over the target file map from domain i on
RECURSIVE FindTransfersFrom(_, _)
FindTransfersFrom(i, ById) ==
    IF i > Len(tgt.file_map) THEN [at |-> AddTransferIdle, by_id |-> ById]
    ELSE LET r == AddTransfer(FindTransfersCall(tgt.file_map[i].name,
                                                tgt.file_map[i].ranges), ById)
         IN IF r.at.pc = "return" THEN FindTransfersFrom(i + 1, r.by_id) ELSE r

IdsOf(ById) == [i \in 1..Len(ById) |-> i - 1]

(***************************************************************************)
(* GenerateDigraph.  goes_before and goes_after are ordered dictionaries:  *)
(* sequences of <<id, weight>>.  b.goes_before is filled in the order of   *)
(* the transfers a; a.goes_after is filled in the iteration order of a     *)
(* Python set, on which nothing below depends, and is listed by id here.   *)
(***************************************************************************)
\* the weight is the size of the overlap, for the __ZERO domain too
EdgeSizePlain(a, b) == Size(Intersect(a.tgt_ranges, b.src_ranges))

EdgeSize(a, b) ==
    IF b.src_name = ZERO THEN 0 ELSE Size(Intersect(a.tgt_ranges, b.src_ranges))

\* source_ranges[i]: the transfers that use block i as a source; None and a
\* single transfer are the sets of no and of one transfer
source_ranges(ById) ==
    LET len == Max({0} \cup {b + 1 : b \in UNION {ById[j].src_ranges : j \in DOMAIN ById}})
    IN [i \in 0..(len - 1) |-> {j \in DOMAIN ById : i \in ById[j].src_ranges}]

\* the transfers that read a block that a writes
intersections(ById, a) ==
    UNION {source_ranges(ById)[i] : i \in a.tgt_ranges \cap DOMAIN source_ranges(ById)}

\* b goes before a: the blocks written by a are read by b
HasEdge(b, a) == a.id # b.id /\ Intersect(a.tgt_ranges, b.src_ranges) # {}

GenerateDigraphResult(ById) ==
    [i \in DOMAIN ById |->
        LET x == ById[i]
            after == SortedSeq({j \in DOMAIN ById :
                                  i \in intersections(ById, ById[j]) /\ HasEdge(x, ById[j])})
            before == SortedSeq({j \in intersections(ById, x) : HasEdge(ById[j], x)})
        IN [x EXCEPT
              !.goes_before =
                  [k \in DOMAIN after |->
                      <<ById[after[k]].id, EdgeSize(ById[after[k]], x)>>],
              !.goes_after =
                  [k \in DOMAIN before |->
                      <<ById[before[k]].id, EdgeSize(x, ById[before[k]])>>]]]

\* helpers on ordered dictionaries
Keys(d) == {d[i][1] : i \in DOMAIN d}
KeySeq(d) == [i \in DOMAIN d |-> d[i][1]]
Lookup(d, k) == d[CHOOSE i \in DOMAIN d : d[i][1] = k][2]
Without(d, k) == SelectSeq(d, LAMBDA e : e[1] # k)
RECURSIVE SumValues(_)
SumValues(d) == IF d = << >> THEN 0 ELSE Head(d)[2] + SumValues(Tail(d))

(***************************************************************************)
(* FindVertexSequence.  The locals are the record vs; incoming, outgoing   *)
(* and score are kept per transfer id.  The heap is the sequence of its    *)
(* HeapItems in the order of their pushes; heappop yields an item of least *)
(* score, which one among equal scores is left open.  sinks and sources    *)
(* are Python sets: their iteration order is open too.                     *)
(***************************************************************************)
None == 0 - 1

\* HeapItem(item): the score is negated, item is None once cleared
HeapItem(u, score) == [item |-> u, score |-> 0 - score]

\* "if u": Python 3 asks HeapItem.__bool__, which Python 2 does not know
Truthy(u) == IF py3 THEN u.item = None ELSE TRUE

FindVertexSequenceIdle ==
    [pc |-> "idle", G |-> {}, s1 |-> << >>, s2 |-> << >>, sinks |-> {},
     sources |-> {}, new |-> {}, incoming |-> << >>, outgoing |-> << >>,
     score |-> << >>, heap |-> << >>]

FindVertexSequenceEntry(ById) ==
    LET ids == {ById[i].id : i \in DOMAIN ById}
        incoming == [u \in ids |-> ById[u + 1].goes_after]
        outgoing == [u \in ids |-> ById[u + 1].goes_before]
        score == [u \in ids |-> SumValues(outgoing[u]) - SumValues(incoming[u])]
    IN [pc |-> "sinks", G |-> ids, s1 |-> << >>, s2 |-> << >>,
        sinks |-> {u \in ids : outgoing[u] = << >>},
        sources |-> {u \in ids : incoming[u] = << >>},
        new |-> {},
        incoming |-> incoming, outgoing |-> outgoing,
        score |-> score,
        heap |-> << >> \o [i \in DOMAIN ById |-> HeapItem(ById[i].id, score[ById[i].id])]]

\* adjust_score(iu, delta): the heap item of iu is cleared and a new one pushed
adjust_score(v, iu, delta) ==
    [v EXCEPT
       !.score = [x \in DOMAIN @ |-> IF x = iu THEN @[x] + delta ELSE @[x]],
       !.heap = Append([k \in DOMAIN @ |->
                           IF @[k].item = iu THEN [@[k] EXCEPT !.item = None]
                           ELSE @[k]],
                       HeapItem(iu, v.score[iu] + delta))]

\* for iu in u.incoming: adjust_score(iu, -iu.outgoing.pop(u)), from entry k on
RECURSIVE PopOutgoingFrom(_, _, _, _)
PopOutgoingFrom(v, u, keys, k) ==
    IF k > Len(keys) THEN v
    ELSE LET iu == keys[k]
         IN PopOutgoingFrom(
                adjust_score(
                    [v EXCEPT !.outgoing = [x \in DOMAIN @ |->
                                               IF x = iu THEN Without(@[x], u) ELSE @[x]]],
                    iu, 0 - Lookup(v.outgoing[iu], u)),
                u, keys, k + 1)

PopOutgoing(v, u) == PopOutgoingFrom(v, u, KeySeq(v.incoming[u]), 1)

\* for iu in u.outgoing: adjust_score(iu, +iu.incoming.pop(u)), from entry k on
RECURSIVE PopIncomingFrom(_, _, _, _)
PopIncomingFrom(v, u, keys, k) ==
    IF k > Len(keys) THEN v
    ELSE LET iu == keys[k]
         IN PopIncomingFrom(
                adjust_score(
                    [v EXCEPT !.incoming = [x \in DOMAIN @ |->
                                               IF x = iu THEN Without(@[x], u) ELSE @[x]]],
                    iu, Lookup(v.incoming[iu], u)),
                u, keys, k + 1)

PopIncoming(v, u) == PopIncomingFrom(v, u, KeySeq(v.outgoing[u]), 1)

NowSinks(v, u) == {x \in Keys(v.incoming[u]) : Without(v.outgoing[x], u) = << >>}
NowSources(v, u) == {x \in Keys(v.outgoing[u]) : Without(v.incoming[x], u) = << >>}

\* the body of "for u in sinks", for the sinks p[i], p[i + 1], ...
RECURSIVE DrainSinks(_, _, _)
DrainSinks(v, p, i) ==
    IF i > Len(p) THEN [v EXCEPT !.sinks = v.new, !.new = {}]
    ELSE IF p[i] \notin v.G THEN DrainSinks(v, p, i + 1)
    ELSE LET u == p[i]
             w == PopOutgoing(v, u)
         IN DrainSinks([w EXCEPT !.s2 = <<u>> \o v.s2,
                                 !.G = v.G \ {u},
                                 !.new = v.new \cup NowSinks(v, u)],
                       p, i + 1)

\* the body of "for u in sources"
RECURSIVE DrainSources(_, _, _)
DrainSources(v, p, i) ==
    IF i > Len(p) THEN [v EXCEPT !.sources = v.new, !.new = {}]
    ELSE IF p[i] \notin v.G THEN DrainSources(v, p, i + 1)
    ELSE LET u == p[i]
             w == PopIncoming(v, u)
         IN DrainSources([w EXCEPT !.s1 = Append(v.s1, u),
                                   !.G = v.G \ {u},
                                   !.new = v.new \cup NowSources(v, u)],
                         p, i + 1)

\* u has been popped from the heap: move it to s1 and update its neighbours
TakeVertex(v, u) ==
    LET w == PopIncoming(v, u)
        x == PopOutgoing(w, u)
    IN [x EXCEPT !.s1 = Append(v.s1, u),
                 !.G = v.G \ {u},
                 !.sources = v.sources \cup NowSources(v, u),
                 !.sinks = v.sinks \cup NowSinks(w, u),
                 !.pc = IF v.G \ {u} = {} THEN "record" ELSE "sinks"]

\* the places of the heap that heappop may yield
Least(heap) == {i \in DOMAIN heap : \A j \in DOMAIN heap : heap[i].score <= heap[j].score}

RemoveAt(s, i) == SubSeq(s, 1, i - 1) \o SubSeq(s, i + 1, Len(s))

\* one turn of "while True: u = heapq.heappop(heap)"
HeapPop(v) ==
    IF v.heap = << >> THEN {[v EXCEPT !.pc = "IndexError"]}
    ELSE {LET u == v.heap[i]
              w == [v EXCEPT !.heap = RemoveAt(@, i)]
          IN IF Truthy(u) /\ u.item \in v.G THEN TakeVertex(w, u.item) ELSE w :
          i \in Least(v.heap)}

\* one step of the main loop: a pass over sinks, a pass over sources, or a
\* pop from the heap; the result is the set of possible next states
FindVertexSequenceStep(v) ==
    IF v.pc = "sinks"
    THEN IF v.sinks # {}
         THEN {DrainSinks(v, p, 1) : p \in Perms(v.sinks)}
         ELSE {[v EXCEPT !.pc = "sources"]}
    ELSE IF v.pc = "sources"
    THEN IF v.sources # {}
         THEN {DrainSources(v, p, 1) : p \in Perms(v.sources)}
         ELSE {[v EXCEPT !.pc = IF v.G = {} THEN "record" ELSE "heap"]}
    ELSE HeapPop(v)

\* every state in which the main loop can end
RECURSIVE FindVertexSequenceLoop(_)
FindVertexSequenceLoop(v) ==
    IF v.pc \in {"record", "IndexError"} THEN {v}
    ELSE UNION {FindVertexSequenceLoop(w) : w \in FindVertexSequenceStep(v)}

\* the sequence with its right side from right to left
NewTransfersBackward(v) == v.s1 \o [i \in DOMAIN v.s2 |-> v.s2[Len(v.s2) + 1 - i]]

\* "Now record the sequence in the 'order' field of each transfer"
NewTransfers(v) == v.s1 \o v.s2
OrderOf(seq, id) == (CHOOSE i \in DOMAIN seq : seq[i] = id) - 1
RecordOrder(ById, seq) ==
    [i \in DOMAIN ById |-> [ById[i] EXCEPT !.order = OrderOf(seq, ById[i].id)]]

(***************************************************************************)
(* RemoveBackwardEdges and ReverseBackwardEdges.  An operator over the     *)
(* transfers returns [by_id, failure], failure "" when no assertion fails. *)
(***************************************************************************)

\* d[k] = v on an ordered dictionary
Put(d, k, v) ==
    IF k \in Keys(d)
    THEN [i \in DOMAIN d |-> IF d[i][1] = k THEN <<k, v>> ELSE d[i]]
    ELSE Append(d, <<k, v>>)

\* a trimming that leaves the transfer marked intact
TrimIntact(x, u) ==
    [x EXCEPT !.src_ranges = Subtract(x.src_ranges, u.tgt_ranges)]

\* the trimming of the source of x by the target of u, for a violated edge
Trim(x, u) ==
    [x EXCEPT !.src_ranges = Subtract(x.src_ranges, u.tgt_ranges),
              !.intact = FALSE]

\* the loop "for u in xf.goes_before" of RemoveBackwardEdges, from entry k on
RECURSIVE TrimSource(_, _, _)
TrimSource(ById, x, k) ==
    IF k > Len(x.goes_before) THEN [xf |-> x, failure |-> ""]
    ELSE LET u == ById[x.goes_before[k][1] + 1]
         IN IF x.order < u.order THEN TrimSource(ById, x, k + 1)
            ELSE IF ~Overlaps(x.src_ranges, u.tgt_ranges)
            THEN [xf |-> x, failure |-> "AssertionError"]
            ELSE TrimSource(ById, Trim(x, u), k + 1)

\* the loop "for xf in self.transfers" of RemoveBackwardEdges, from index t on
RECURSIVE RemoveBackwardEdgesFrom(_, _, _)
RemoveBackwardEdgesFrom(ById, seq, t) ==
    IF t > Len(seq) THEN [by_id |-> ById, failure |-> ""]
    ELSE LET r == TrimSource(ById, ById[seq[t] + 1], 1)
             x == IF r.xf.style = "diff" /\ r.xf.src_ranges = {}
                  THEN [r.xf EXCEPT !.style = "new"]
                  ELSE r.xf
         IN IF r.failure # "" THEN [by_id |-> ById, failure |-> r.failure]
            ELSE RemoveBackwardEdgesFrom([ById EXCEPT ![seq[t] + 1] = x], seq, t + 1)

RemoveBackwardEdgesResult(ById, seq) == RemoveBackwardEdgesFrom(ById, seq, 1)

\* ReverseEdge without the stash: the edge is reversed, the blocks are not saved
ReverseEdgeNoStash(ById, xid, uid, sid) ==
    LET x == ById[xid + 1]
        u == ById[uid + 1]
    IN [i \in DOMAIN ById |->
          IF i = xid + 1
          THEN [x EXCEPT !.goes_before = Without(x.goes_before, uid),
                         !.goes_after = Put(x.goes_after, uid, None)]
          ELSE IF i = uid + 1
          THEN [u EXCEPT !.goes_after = Without(u.goes_after, xid),
                         !.goes_before = Put(u.goes_before, xid, None)]
          ELSE ById[i]]

\* ReverseEdge that makes the reading transfer stash the blocks itself
ReverseEdgeSelfStash(ById, xid, uid, sid) ==
    LET x == ById[xid + 1]
        u == ById[uid + 1]
        overlap == Intersect(x.src_ranges, u.tgt_ranges)
    IN [i \in DOMAIN ById |->
          IF i = xid + 1
          THEN [x EXCEPT !.use_stash = Append(x.use_stash, <<sid, overlap>>),
                         !.stash_before = Append(x.stash_before, <<sid, overlap>>),
                         !.goes_before = Without(x.goes_before, uid),
                         !.goes_after = Put(x.goes_after, uid, None)]
          ELSE IF i = uid + 1
          THEN [u EXCEPT !.goes_after = Without(u.goes_after, xid),
                         !.goes_before = Put(u.goes_before, xid, None)]
          ELSE ById[i]]

\* ReverseEdge that leaves the violated edge in place beside the new one
ReverseEdgeKept(ById, xid, uid, sid) ==
    LET x == ById[xid + 1]
        u == ById[uid + 1]
        overlap == Intersect(x.src_ranges, u.tgt_ranges)
    IN [i \in DOMAIN ById |->
          IF i = xid + 1
          THEN [x EXCEPT !.use_stash = Append(x.use_stash, <<sid, overlap>>),
                         !.goes_after = Put(x.goes_after, uid, None)]
          ELSE IF i = uid + 1
          THEN [u EXCEPT !.stash_before = Append(u.stash_before, <<sid, overlap>>),
                         !.goes_before = Put(u.goes_before, xid, None)]
          ELSE ById[i]]

\* ReverseEdge that gives every stash the id 0
ReverseEdgeSameId(ById, xid, uid, sid) ==
    LET x == ById[xid + 1]
        u == ById[uid + 1]
        overlap == Intersect(x.src_ranges, u.tgt_ranges)
    IN [i \in DOMAIN ById |->
          IF i = xid + 1
          THEN [x EXCEPT !.use_stash = Append(x.use_stash, <<0, overlap>>),
                         !.goes_before = Without(x.goes_before, uid),
                         !.goes_after = Put(x.goes_after, uid, None)]
          ELSE IF i = uid + 1
          THEN [u EXCEPT !.stash_before = Append(u.stash_before, <<0, overlap>>),
                         !.goes_after = Without(u.goes_after, xid),
                         !.goes_before = Put(u.goes_before, xid, None)]
          ELSE ById[i]]

\* the stash that reverses the violated edge xf -> u
ReverseEdge(ById, xid, uid, sid) ==
    LET x == ById[xid + 1]
        u == ById[uid + 1]
        overlap == Intersect(x.src_ranges, u.tgt_ranges)
    IN [i \in DOMAIN ById |->
          IF i = xid + 1
          THEN [x EXCEPT !.use_stash = Append(x.use_stash, <<sid, overlap>>),
                         !.goes_before = Without(x.goes_before, uid),
                         !.goes_after = Put(x.goes_after, uid, None)]
          ELSE IF i = uid + 1
          THEN [u EXCEPT !.stash_before = Append(u.stash_before, <<sid, overlap>>),
                         !.goes_after = Without(u.goes_after, xid),
                         !.goes_before = Put(u.goes_before, xid, None)]
          ELSE ById[i]]

\* the loop "for u in xf.goes_before.copy()", from entry k of the copy on
RECURSIVE ReverseEdgesOf(_, _, _, _, _)
ReverseEdgesOf(ById, xid, copy, k, stashes) ==
    IF k > Len(copy) THEN [by_id |-> ById, stashes |-> stashes, failure |-> ""]
    ELSE LET x == ById[xid + 1]
             u == ById[copy[k] + 1]
         IN IF x.order < u.order
            THEN ReverseEdgesOf(ById, xid, copy, k + 1, stashes)
            ELSE IF Intersect(x.src_ranges, u.tgt_ranges) = {}
            THEN [by_id |-> ById, stashes |-> stashes, failure |-> "AssertionError"]
            ELSE ReverseEdgesOf(ReverseEdge(ById, xid, u.id, stashes),
                                xid, copy, k + 1, stashes + 1)

RECURSIVE ReverseBackwardEdgesFrom(_, _, _, _)
ReverseBackwardEdgesFrom(ById, seq, t, stashes) ==
    IF t > Len(seq) THEN [by_id |-> ById, stashes |-> stashes, failure |-> ""]
    ELSE LET r == ReverseEdgesOf(ById, seq[t], KeySeq(ById[seq[t] + 1].goes_before),
                                 1, stashes)
         IN IF r.failure # "" THEN r
            ELSE ReverseBackwardEdgesFrom(r.by_id, seq, t + 1, r.stashes)

ReverseBackwardEdgesResult(ById, seq) == ReverseBackwardEdgesFrom(ById, seq, 1, 0)

(***************************************************************************)
(* ImproveVertexSequence                                                   *)
(***************************************************************************)
\* heappop that looks at the order only
PopLeastOrder(ById, S) ==
    CHOOSE u \in S : \A x \in S : ById[u + 1].order <= ById[x + 1].order

\* heappop on the heap of (NetStashChange, order, u) tuples
PopLeast(ById, S) ==
    CHOOSE u \in S : \A x \in S :
        \/ NetStashChange(ById[u + 1]) < NetStashChange(ById[x + 1])
        \/ /\ NetStashChange(ById[u + 1]) = NetStashChange(ById[x + 1])
           /\ ById[u + 1].order <= ById[x + 1].order

\* the loop "while S"; incoming is the working copy of goes_after, per id
RECURSIVE ImproveLoop(_, _, _, _)
ImproveLoop(ById, S, incoming, L) ==
    IF S = {} THEN L
    ELSE LET xf == PopLeast(ById, S)
             out == Keys(ById[xf + 1].goes_before)
             inc == [u \in DOMAIN incoming |->
                        IF u \in out THEN Without(incoming[u], xf) ELSE incoming[u]]
         IN ImproveLoop(ById,
                        (S \ {xf}) \cup {u \in out : inc[u] = << >>},
                        inc, Append(L, xf))

ImproveVertexSequenceResult(ById, seq) ==
    LET ids == {ById[i].id : i \in DOMAIN ById}
        incoming == [u \in ids |-> ById[u + 1].goes_after]
        L == ImproveLoop(ById, {u \in ids : incoming[u] = << >>}, incoming, << >>)
    IN IF Len(L) # Len(seq)
       THEN [by_id |-> ById, transfers |-> seq, failure |-> "AssertionError"]
       ELSE [by_id |-> RecordOrder(ById, L), transfers |-> L, failure |-> ""]

(***************************************************************************)
(* ReviseStashSize                                                         *)
(***************************************************************************)
ReviseStashSizeIdle == [pc |-> "idle", i |-> 0, stashed_blocks |-> 0, new_blocks |-> 0]

StashIds(stashes) == {stashes[i][1] : i \in DOMAIN stashes}

\* stashes[idx][1] and stashes[idx][2] of the def/use map built first
DefCmd(ById, idx) ==
    (CHOOSE i \in DOMAIN ById : idx \in StashIds(ById[i].stash_before)) - 1
UseCmd(ById, idx) ==
    (CHOOSE i \in DOMAIN ById : idx \in StashIds(ById[i].use_stash)) - 1

\* building the map fails when a stash is used before the walk has met its
\* definition, and looking up the user fails when a stash has none
StashMapOK(ById, seq) ==
    \A t \in DOMAIN seq : \A idx \in StashIds(ById[seq[t] + 1].use_stash) :
        \E d \in 1..t : idx \in StashIds(ById[seq[d] + 1].stash_before)
HasUser(ById, idx) == \E i \in DOMAIN ById : idx \in StashIds(ById[i].use_stash)

\* stashed_blocks + size > max_allowed, with
\* max_allowed = cache_size * stash_threshold / self.tgt.blocksize
ExceedsMaxAllowed(blocks) == blocks * blocksize * ThrDen > cache_size * ThrNum

\* the loop over stash_before that replaces the command that defines the stash
RECURSIVE ReviseExplicitDefiner(_, _, _, _)
ReviseExplicitDefiner(ById, sb, k, st) ==
    IF k > Len(sb) THEN st
    ELSE IF ExceedsMaxAllowed(st.stashed_blocks + Size(sb[k][2]))
    THEN ReviseExplicitDefiner(ById, sb, k + 1,
             [st EXCEPT !.replaced_cmds = Append(@, DefCmd(ById, sb[k][1]))])
    ELSE ReviseExplicitDefiner(ById, sb, k + 1,
             [st EXCEPT !.stashed_blocks = @ + Size(sb[k][2])])

\* the loop "for idx, sr in xf.stash_before", from entry k on; st holds
\* stashed_blocks and replaced_cmds
RECURSIVE ReviseExplicit(_, _, _, _)
ReviseExplicit(ById, sb, k, st) ==
    IF k > Len(sb) THEN st
    ELSE IF ExceedsMaxAllowed(st.stashed_blocks + Size(sb[k][2]))
    THEN IF ~HasUser(ById, sb[k][1])
         THEN [st EXCEPT !.failure = "IndexError"]
         ELSE ReviseExplicit(ById, sb, k + 1,
                  [st EXCEPT !.replaced_cmds = Append(@, UseCmd(ById, sb[k][1]))])
    ELSE ReviseExplicit(ById, sb, k + 1,
             [st EXCEPT !.stashed_blocks = @ + Size(sb[k][2])])

\* the def points of the stashes of a replaced command left where they are
RemoveDefsKept(ById, us, k) == ById

\* "for idx, sr in cmd.use_stash": remove the def points of cmd's stashes
RECURSIVE RemoveDefs(_, _, _)
RemoveDefs(ById, us, k) ==
    IF k > Len(us) THEN ById
    ELSE LET d == DefCmd(ById, us[k][1]) + 1
         IN RemoveDefs([ById EXCEPT ![d].stash_before =
                            SelectSeq(@, LAMBDA e : e # us[k])],
                       us, k + 1)

\* "for cmd in replaced_cmds", from entry k on
RECURSIVE ReplaceCmds(_, _, _, _)
ReplaceCmds(ById, cmds, k, new_blocks) ==
    IF k > Len(cmds)
    THEN [by_id |-> ById, new_blocks |-> new_blocks, failure |-> ""]
    ELSE LET cmd == ById[cmds[k] + 1]
             B == RemoveDefs(ById, cmd.use_stash, 1)
         IN IF cmd.style = "new"
            THEN [by_id |-> B, new_blocks |-> new_blocks, failure |-> "AssertionError"]
            ELSE ReplaceCmds([B EXCEPT ![cmds[k] + 1] = ConvertToNew(cmd)],
                             cmds, k + 1, new_blocks + Size(cmd.tgt_ranges))

\* one iteration of the walk "for xf in self.transfers"; r holds by_id,
\* stashed_blocks, new_blocks and failure
ReviseTransfer(r, id) ==
    LET xf == r.by_id[id + 1]
        e == ReviseExplicit(r.by_id, xf.stash_before, 1,
                 [stashed_blocks |-> r.stashed_blocks, replaced_cmds |-> << >>,
                  failure |-> ""])
        freed == e.stashed_blocks - StashSize(xf.use_stash)
        implicit == /\ xf.style = "diff"
                    /\ version >= 3
                    /\ Overlaps(xf.src_ranges, xf.tgt_ranges)
                    /\ ExceedsMaxAllowed(freed + Size(xf.src_ranges))
        cmds == IF implicit THEN Append(e.replaced_cmds, id) ELSE e.replaced_cmds
        done == ReplaceCmds(r.by_id, cmds, 1, r.new_blocks)
    IN IF e.failure # "" THEN [r EXCEPT !.failure = e.failure]
       ELSE IF /\ xf.style = "diff" /\ version >= 3
               /\ (xf.tgt_ranges = {} \/ xf.src_ranges = {})
       THEN [r EXCEPT !.failure = "AssertionError"]
       ELSE [by_id |-> done.by_id, stashed_blocks |-> freed,
             new_blocks |-> done.new_blocks, failure |-> done.failure]

RECURSIVE ReviseFrom(_, _, _)
ReviseFrom(r, seq, t) ==
    IF t > Len(seq) \/ r.failure # "" THEN r
    ELSE ReviseFrom(ReviseTransfer(r, seq[t]), seq, t + 1)

ReviseStashSizeResult(ById, seq) ==
    IF ~StashMapOK(ById, seq)
    THEN [by_id |-> ById, stashed_blocks |-> 0, new_blocks |-> 0,
          failure |-> "KeyError"]
    ELSE ReviseFrom([by_id |-> ById, stashed_blocks |-> 0, new_blocks |-> 0,
                     failure |-> ""], seq, 1)

(***************************************************************************)
(* AssertSequenceGood                                                      *)
(***************************************************************************)
RECURSIVE StashedRanges(_)
\* the union of the ranges of a list of stashes
StashedRanges(stashes) ==
    IF stashes = << >> THEN {}
    ELSE Head(stashes)[2] \cup StashedRanges(Tail(stashes))

\* the blocks a transfer reads from the source image itself
ReadRanges(xf) ==
    IF version >= 2 THEN Subtract(xf.src_ranges, StashedRanges(xf.use_stash))
    ELSE xf.src_ranges

\* the walk over the transfers from index t on; touched holds the blocks
\* whose entry is 1.  The result names the assertion that fails, "" if none.
RECURSIVE SequenceGoodFrom(_, _, _, _)
SequenceGoodFrom(ById, seq, t, touched) ==
    IF t > Len(seq)
    THEN IF tgt.care_map \subseteq touched THEN "" ELSE "not written"
    ELSE LET xf == ById[seq[t] + 1]
             x == {b \in ReadRanges(xf) : b < tgt.total_blocks}
         IN IF x \cap touched # {} THEN "read after write"
            ELSE IF \E b \in xf.tgt_ranges : b >= tgt.total_blocks THEN "IndexError"
            ELSE IF xf.tgt_ranges \cap touched # {} THEN "written twice"
            ELSE SequenceGoodFrom(ById, seq, t + 1, touched \cup xf.tgt_ranges)

AssertSequenceGoodResult(ById, seq) == SequenceGoodFrom(ById, seq, 1, {})

(***************************************************************************)
(* Block contents.  The blocks of the source's __ZERO domain hold zeros;   *)
(* the other source blocks hold pairwise different data.  A hash is        *)
(* modelled by the data it is taken of.                                    *)
(***************************************************************************)
SrcData(b) ==
    IF b \in FileMapGetOr(src.file_map, ZERO, EmptyRangeSet) THEN 0 ELSE b + 1

\* HashBlocks(self.src, ranges)
HashBlocks(ranges) ==
    LET blocks == SortedSeq(ranges)
    IN [i \in DOMAIN blocks |-> SrcData(blocks[i])]

(***************************************************************************)
(* ComputePatches, as far as the styles go: a diff whose source and target *)
(* data are equal becomes a move, any other a bsdiff or an imgdiff.        *)
(***************************************************************************)
Lower(c) ==
    CASE c = "A" -> "a" [] c = "P" -> "p" [] c = "K" -> "k" [] c = "J" -> "j"
      [] c = "R" -> "r" [] c = "Z" -> "z" [] c = "I" -> "i" [] OTHER -> c

\* tgt_name.split(".")[-1].lower() in ("apk", "jar", "zip")
ZipName(name) ==
    LET dots == {i \in 1..Len(name) : name[i] = "."}
        last == IF dots = {} THEN 0 ELSE Max(dots)
        ext == SubSeq(name, last + 1, Len(name))
    IN [i \in DOMAIN ext |-> Lower(ext[i])]
           \in {<<"a", "p", "k">>, <<"j", "a", "r">>, <<"z", "i", "p">>}

\* the style of a diff transfer whose data differ; imgdiff is not disabled
DiffStyle(xf) == IF xf.intact /\ ZipName(xf.tgt_name) THEN "imgdiff" ELSE "bsdiff"

\* the styles a transfer can have after ComputePatches
Resolved(xf) ==
    IF xf.style # "diff" THEN {xf.style}
    ELSE {DiffStyle(xf)} \cup
         (IF Size(xf.src_ranges) = Size(xf.tgt_ranges) THEN {"move"} ELSE {})

(***************************************************************************)
(* WriteTransfers.  A line of the transfer list is a record; the source    *)
(* string of versions >= 2 is the record src_str.  The locals together     *)
(* with self.touched_src_ranges are the record w.                          *)
(***************************************************************************)
NoSrc == [n |-> 0, ranges |-> "", unstashed |-> {}, mapped |-> {}, refs |-> << >>]

Line(cmd, key, tgt_ranges, src_ranges, src_str, patch) ==
    [cmd |-> cmd, key |-> key, tgt |-> tgt_ranges, src |-> src_ranges,
     src_str |-> src_str, patch |-> patch]

WriteTransfersEntry ==
    [i |-> 1, out |-> << >>, total |-> 0, stashes |-> EmptyDict,
     hashes |-> EmptyDict, stashed_blocks |-> 0, max_stashed_blocks |-> 0,
     free_stash_ids |-> {}, next_stash_id |-> 0,
     touched_src_ranges |-> {},
     failure |-> ""]

\* AssertPartition(total, seq): "" or the failure
RECURSIVE PartitionFrom(_, _, _, _)
PartitionFrom(total, seq, k, so_far) ==
    IF k > Len(seq) THEN (IF so_far = total THEN "" ELSE "AssertionError")
    ELSE IF Overlaps(so_far, seq[k]) THEN "AssertionError"
    ELSE PartitionFrom(total, seq, k + 1, Union(so_far, seq[k]))

AssertPartition(total, seq) == PartitionFrom(total, seq, 1, EmptyRangeSet)

\* WriteTransfersZero that puts all the blocks into one command
WriteTransfersZeroWhole(to_zero) ==
    IF Size(to_zero) = 0 THEN << >>
    ELSE <<Line("zero", << >>, to_zero, {}, NoSrc, << >>)>>

\* the loop of WriteTransfersZero: the zero lines for to_zero
RECURSIVE WriteTransfersZero(_)
WriteTransfersZero(to_zero) ==
    IF Size(to_zero) = 0 THEN << >>
    ELSE LET zero_blocks == First(to_zero, zero_blocks_limit)
         IN <<Line("zero", << >>, zero_blocks, {}, NoSrc, << >>)>>
            \o WriteTransfersZero(Subtract(to_zero, zero_blocks))

RECURSIVE LinesSize(_)
LinesSize(lines) ==
    IF lines = << >> THEN 0 ELSE Size(Head(lines).tgt) + LinesSize(Tail(lines))

\* a stash line for every entry, whatever the table holds
StashEvery(w, s, sr) ==
    LET sid == IF w.free_stash_ids # {} THEN Min(w.free_stash_ids)
               ELSE w.next_stash_id
        sh == HashBlocks(sr)
    IN [w EXCEPT
          !.free_stash_ids = IF @ # {} THEN @ \ {sid} ELSE @,
          !.next_stash_id = IF w.free_stash_ids # {} THEN @ ELSE @ + 1,
          !.stashes = DictSet(@, s, sid),
          !.hashes = DictSet(@, sh, IF sh \in DOMAIN @ THEN @[sh] + 1 ELSE 1),
          !.stashed_blocks = @ + Size(sr),
          !.out = Append(@, Line("stash", IF version = 2 THEN <<sid>> ELSE sh,
                                 {}, sr, NoSrc, << >>))]

\* a stash that takes a fresh id whatever the free heap holds
StashFresh(w, s, sr) ==
    LET sid == w.next_stash_id
        w1 == [w EXCEPT !.next_stash_id = @ + 1,
                        !.stashes = DictSet(@, s, sid)]
        sh == HashBlocks(sr)
    IN IF s \in DOMAIN w.stashes
       THEN [w EXCEPT !.failure = "AssertionError"]
       ELSE IF version = 2
       THEN [w1 EXCEPT !.stashed_blocks = @ + Size(sr),
                       !.out = Append(@, Line("stash", <<sid>>, {}, sr,
                                              NoSrc, << >>))]
       ELSE IF sh \in DOMAIN w.hashes
       THEN [w1 EXCEPT !.hashes = DictSet(@, sh, @[sh] + 1)]
       ELSE [w1 EXCEPT !.hashes = DictSet(@, sh, 1),
                       !.stashed_blocks = @ + Size(sr),
                       !.touched_src_ranges = Union(@, sr),
                       !.out = Append(@, Line("stash", sh, {}, sr,
                                              NoSrc, << >>))]

\* the body of "for s, sr in xf.stash_before", for the entry (s, sr)
Stash(w, s, sr) ==
    LET sid == IF w.free_stash_ids # {} THEN Min(w.free_stash_ids)
               ELSE w.next_stash_id
        w1 == [w EXCEPT
                 !.free_stash_ids = IF @ # {} THEN @ \ {sid} ELSE @,
                 !.next_stash_id = IF w.free_stash_ids # {} THEN @ ELSE @ + 1,
                 !.stashes = DictSet(@, s, sid)]
        sh == HashBlocks(sr)
    IN IF s \in DOMAIN w.stashes
       THEN [w EXCEPT !.failure = "AssertionError"]
       ELSE IF version = 2
       THEN [w1 EXCEPT !.stashed_blocks = @ + Size(sr),
                       !.out = Append(@, Line("stash", <<sid>>, {}, sr,
                                              NoSrc, << >>))]
       ELSE IF sh \in DOMAIN w.hashes
       THEN [w1 EXCEPT !.hashes = DictSet(@, sh, @[sh] + 1)]
       ELSE [w1 EXCEPT !.hashes = DictSet(@, sh, 1),
                       !.stashed_blocks = @ + Size(sr),
                       !.touched_src_ranges = Union(@, sr),
                       !.out = Append(@, Line("stash", sh, {}, sr,
                                              NoSrc, << >>))]

\* "for s, sr in xf.stash_before", from entry k on
RECURSIVE StashBefore(_, _, _)
StashBefore(w, sb, k) ==
    IF k > Len(sb) \/ w.failure # "" THEN w
    ELSE StashBefore(Stash(w, sb[k][1], sb[k][2]), sb, k + 1)

\* "for s, sr in xf.use_stash", from entry k on; u holds w and the locals
\* unstashed_src_ranges, mapped_stashes, refs (of src_str), free_string and
\* free_size
RECURSIVE UseStash(_, _, _)
UseStash(u, xf, k) ==
    IF k > Len(xf.use_stash) \/ u.w.failure # "" THEN u
    ELSE LET s == xf.use_stash[k][1]
             sr == xf.use_stash[k][2]
             sh == HashBlocks(sr)
             mapped == MapWithin(xf.src_ranges, sr)
         IN IF s \notin DOMAIN u.w.stashes
            THEN [u EXCEPT !.w.failure = "KeyError"]
            ELSE LET sid == u.w.stashes[s]
                     u1 == [u EXCEPT
                              !.w.stashes = DictDel(@, s),
                              !.w.free_stash_ids = @ \cup {sid},
                              !.unstashed = Subtract(@, sr),
                              !.mapped_stashes = Append(@, mapped)]
                 IN IF version = 2
                    THEN UseStash(
                             [u1 EXCEPT
                                !.refs = Append(@, <<(<<sid>>), mapped>>),
                                !.free_string =
                                    Append(@, Line("free", <<sid>>, {}, {}, NoSrc, << >>)),
                                !.free_size = @ + Size(mapped)],
                             xf, k + 1)
                    ELSE IF sh \notin DOMAIN u.w.hashes
                    THEN [u1 EXCEPT !.w.failure = "AssertionError"]
                    ELSE IF u.w.hashes[sh] = 1
                    THEN UseStash(
                             [u1 EXCEPT
                                !.refs = Append(@, <<sh, mapped>>),
                                !.w.hashes = DictDel(@, sh),
                                !.free_string =
                                    Append(@, Line("free", sh, {}, {}, NoSrc, << >>)),
                                !.free_size = @ + Size(mapped)],
                             xf, k + 1)
                    ELSE UseStash(
                             [u1 EXCEPT
                                !.refs = Append(@, <<sh, mapped>>),
                                !.w.hashes = DictSet(@, sh, @[sh] - 1)],
                             xf, k + 1)

\* "unstashed_src_ranges is None": a RangeSet object, empty or not, is never None
IsNone(ranges) == FALSE

\* the source string of versions >= 2 and the outcome of its AssertPartition
SrcStr(u, xf) ==
    LET size == Size(xf.src_ranges)
        mapped_unstashed == MapWithin(xf.src_ranges, u.unstashed)
    IN IF IsNone(u.unstashed)
       THEN [src_str |-> [n |-> size, ranges |-> "ranges", unstashed |-> u.unstashed,
                          mapped |-> IF xf.use_stash # << >> THEN mapped_unstashed
                                     ELSE {},
                          refs |-> u.refs],
             failure |-> IF xf.use_stash # << >>
                         THEN AssertPartition(RangeOf(0, size),
                                  Append(u.mapped_stashes, mapped_unstashed))
                         ELSE ""]
       ELSE [src_str |-> [n |-> size, ranges |-> "-", unstashed |-> {},
                          mapped |-> {}, refs |-> u.refs],
             failure |-> AssertPartition(RangeOf(0, size), u.mapped_stashes)]

\* the stash budget: max_stashed_blocks * blocksize < cache_size * stash_threshold
WithinBudget(max_stashed_blocks) ==
    max_stashed_blocks * blocksize * ThrDen < cache_size * ThrNum

\* the version >= 3 accounting of a command that reads xf.src_ranges
ImplicitStash(w, xf) ==
    LET temp_stash_usage == w.stashed_blocks + Size(xf.src_ranges)
    IN [w EXCEPT
          !.max_stashed_blocks =
              IF Overlaps(xf.src_ranges, xf.tgt_ranges) /\ temp_stash_usage > @
              THEN temp_stash_usage ELSE @,
          !.touched_src_ranges = Union(@, xf.src_ranges)]

\* the branch on xf.style with a move that counts its target in total whether
\* or not it is written
CommandCounted(w, xf, src_str) ==
    LET tgt_size == Size(xf.tgt_ranges)
        w3 == IF version >= 3 THEN ImplicitStash(w, xf) ELSE w
        patch == IF xf.style = "move" THEN << >> ELSE <<xf.patch_start, xf.patch_len>>
        line == Line(xf.style, << >>, xf.tgt_ranges, xf.src_ranges,
                     IF version = 1 THEN NoSrc ELSE src_str, patch)
    IN IF xf.style \notin {"new", "move", "bsdiff", "imgdiff", "zero"}
       THEN [w EXCEPT !.failure = "ValueError"]
       ELSE IF xf.tgt_ranges = {} THEN [w EXCEPT !.failure = "AssertionError"]
       ELSE IF xf.style = "new"
       THEN [w EXCEPT !.out = Append(@, Line("new", << >>, xf.tgt_ranges, {},
                                            NoSrc, << >>)),
                      !.total = @ + tgt_size]
       ELSE IF xf.style = "move"
       THEN IF Size(xf.src_ranges) # tgt_size
            THEN [w EXCEPT !.failure = "AssertionError"]
            ELSE IF xf.src_ranges # xf.tgt_ranges
            THEN [w3 EXCEPT !.out = Append(@, line), !.total = @ + tgt_size]
            ELSE [w EXCEPT !.total = @ + tgt_size]
       ELSE IF xf.style \in {"bsdiff", "imgdiff"}
       THEN IF xf.src_ranges = {}
            THEN [w EXCEPT !.failure = "AssertionError"]
            ELSE [w3 EXCEPT !.out = Append(@, line), !.total = @ + tgt_size]
       ELSE LET to_zero == Subtract(xf.tgt_ranges, xf.src_ranges)
                lines == WriteTransfersZero(to_zero)
            IN IF LinesSize(lines) # Size(to_zero)
               THEN [w EXCEPT !.failure = "AssertionError"]
               ELSE [w EXCEPT !.out = @ \o lines, !.total = @ + Size(to_zero)]

\* the branch on xf.style: the command lines and the counters
Command(w, xf, src_str) ==
    LET tgt_size == Size(xf.tgt_ranges)
        w3 == IF version >= 3 THEN ImplicitStash(w, xf) ELSE w
        patch == IF xf.style = "move" THEN << >> ELSE <<xf.patch_start, xf.patch_len>>
        line == Line(xf.style, << >>, xf.tgt_ranges, xf.src_ranges,
                     IF version = 1 THEN NoSrc ELSE src_str, patch)
    IN IF xf.style \notin {"new", "move", "bsdiff", "imgdiff", "zero"}
       THEN [w EXCEPT !.failure = "ValueError"]
       ELSE IF xf.tgt_ranges = {} THEN [w EXCEPT !.failure = "AssertionError"]
       ELSE IF xf.style = "new"
       THEN [w EXCEPT !.out = Append(@, Line("new", << >>, xf.tgt_ranges, {},
                                            NoSrc, << >>)),
                      !.total = @ + tgt_size]
       ELSE IF xf.style = "move"
       THEN IF Size(xf.src_ranges) # tgt_size
            THEN [w EXCEPT !.failure = "AssertionError"]
            ELSE IF xf.src_ranges # xf.tgt_ranges
            THEN [w3 EXCEPT !.out = Append(@, line), !.total = @ + tgt_size]
            ELSE w
       ELSE IF xf.style \in {"bsdiff", "imgdiff"}
       THEN IF xf.src_ranges = {}
            THEN [w EXCEPT !.failure = "AssertionError"]
            ELSE [w3 EXCEPT !.out = Append(@, line), !.total = @ + tgt_size]
       ELSE LET to_zero == Subtract(xf.tgt_ranges, xf.src_ranges)
                lines == WriteTransfersZero(to_zero)
            IN IF LinesSize(lines) # Size(to_zero)
               THEN [w EXCEPT !.failure = "AssertionError"]
               ELSE [w EXCEPT !.out = @ \o lines, !.total = @ + Size(to_zero)]

\* the free lines written without a change of stashed_blocks
FreeStashesUncounted(w, u) ==
    IF u.free_string # << >> THEN [w EXCEPT !.out = @ \o u.free_string] ELSE w

\* "if free_string": the free lines follow the command and their blocks
\* leave stashed_blocks
FreeStashes(w, u) ==
    IF u.free_string # << >>
    THEN [w EXCEPT !.out = @ \o u.free_string,
                   !.stashed_blocks = @ - u.free_size]
    ELSE w

\* one iteration of "for xf in self.transfers"
WriteTransfer(w, xf) ==
    LET w1 == StashBefore(w, xf.stash_before, 1)
        w2 == [w1 EXCEPT !.max_stashed_blocks =
                             IF w1.stashed_blocks > @ THEN w1.stashed_blocks ELSE @]
        u == UseStash([w |-> w2, unstashed |-> xf.src_ranges,
                       mapped_stashes |-> << >>, refs |-> << >>,
                       free_string |-> << >>, free_size |-> 0], xf, 1)
        ss == IF version = 1 THEN [src_str |-> NoSrc, failure |-> ""]
              ELSE SrcStr(u, xf)
        w4 == Command(IF version = 1 THEN w2 ELSE u.w, xf, ss.src_str)
        w5 == IF version >= 2 THEN FreeStashes(w4, u) ELSE w4
    IN IF version < 2 /\ (xf.stash_before # << >> \/ xf.use_stash # << >>)
       THEN [w EXCEPT !.failure = "AssertionError"]
       ELSE IF w1.failure # "" THEN w1
       ELSE IF version >= 2 /\ u.w.failure # "" THEN u.w
       ELSE IF ss.failure # "" THEN [u.w EXCEPT !.failure = "AssertPartition"]
       ELSE IF w4.failure # "" THEN w4
       ELSE IF version >= 2 /\ CacheConfigured /\ ~WithinBudget(w5.max_stashed_blocks)
       THEN [w5 EXCEPT !.failure = "StashBudget"]
       ELSE [w5 EXCEPT !.i = @ + 1]

\* the lines that follow the loop, and the header
new_dontcare ==
    Subtract(Subtract(RangeOf(0, tgt.total_blocks), tgt.extended), tgt.care_map)
erase_first(touched) == Subtract(new_dontcare, touched)
erase_last(touched) == Subtract(new_dontcare, erase_first(touched))

Header(n) == Line("header", <<n>>, {}, {}, NoSrc, << >>)
Erase(ranges) == Line("erase", << >>, ranges, {}, NoSrc, << >>)

\* list.insert(i, x), for an index i that is not negative
Insert(s, i, x) ==
    LET k == IF i > Len(s) THEN Len(s) ELSE i
    IN SubSeq(s, 1, k) \o <<x>> \o SubSeq(s, k + 1, Len(s))

\* the lines out with the header put in front of them
WithHeader(out, total, next_stash_id, max_stashed_blocks) ==
    LET o1 == Insert(out, 0, Header(version))
        o2 == Insert(o1, 1, Header(total))
    IN IF version >= 2
       THEN Insert(Insert(o2, 2, Header(next_stash_id)), 3, Header(max_stashed_blocks))
       ELSE o2

\* the early erase put once the header is there, so that it precedes it
EpilogueEraseInFront(w) ==
    LET o1 == w.out \o WriteTransfersZero(tgt.extended)
        first == erase_first(w.touched_src_ranges)
        last == erase_last(w.touched_src_ranges)
        o2 == IF Size(last) > 0 THEN Append(o1, Erase(last)) ELSE o1
        o3 == WithHeader(o2, w.total + Size(tgt.extended), w.next_stash_id,
                         w.max_stashed_blocks)
    IN [w EXCEPT !.out = IF Size(first) > 0 THEN Insert(o3, 0, Erase(first)) ELSE o3,
                 !.total = w.total + Size(tgt.extended)]

Epilogue(w) ==
    LET ext == IF Size(tgt.extended) > 0 THEN WriteTransfersZero(tgt.extended)
               ELSE << >>
        total == w.total + Size(tgt.extended)
        first == erase_first(w.touched_src_ranges)
        last == erase_last(w.touched_src_ranges)
        o1 == w.out \o ext
        o2 == IF Size(first) > 0 THEN Insert(o1, 0, Erase(first)) ELSE o1
        o3 == IF Size(last) > 0 THEN Append(o2, Erase(last)) ELSE o2
    IN IF LinesSize(ext) # Size(tgt.extended)
       THEN [w EXCEPT !.failure = "AssertionError"]
       ELSE [w EXCEPT !.out = WithHeader(o3, total, w.next_stash_id,
                                         w.max_stashed_blocks),
                      !.total = total]

(***************************************************************************)
(* ComputePatches.  The data of a target block is modelled by its number,  *)
(* a patch by the id of its transfer, repeated as often as the patch is    *)
(* long.  A file under prefix is << >> when it was never opened and        *)
(* <<data>> once it was.  An entry of patches is << >> for None.           *)
(***************************************************************************)
NoFiles == [new_dat |-> << >>, patch_dat |-> << >>, transfer_list |-> << >>]

ComputePatchesIdle ==
    [pc |-> "idle", diff_q |-> << >>, patches |-> << >>,
     worker |-> << >>, job |-> << >>, patch |-> << >>]

RECURSIVE NewDataById(_, _, _)
\* new.dat written in the order of the ids instead of the order of seq
NewDataById(ById, seq, t) ==
    IF t > Len(ById) THEN << >>
    ELSE (IF ById[t].style = "new" THEN SortedSeq(ById[t].tgt_ranges) ELSE << >>)
         \o NewDataById(ById, seq, t + 1)

RECURSIVE NewData(_, _, _)
\* what the first loop writes to new.dat from seq[t] on
NewData(ById, seq, t) ==
    IF t > Len(seq) THEN << >>
    ELSE (IF ById[seq[t] + 1].style = "new"
          THEN SortedSeq(ById[seq[t] + 1].tgt_ranges) ELSE << >>)
         \o NewData(ById, seq, t + 1)

\* the transfers that the first loop appends to diff_q, in that order; the
\* patch_num of diff_q[k] is k - 1
DiffQ(ById, seq) ==
    SelectSeq(seq, LAMBDA id : ById[id + 1].style \in {"bsdiff", "imgdiff"})

patch_num(ById, seq, id) == OrderOf(DiffQ(ById, seq), id)

\* diff_q.sort(): ascending by tgt_size; entries of the same tgt_size are
\* ordered by their data, which the model leaves open
SortedQueues(ById, q) ==
    {p \in Perms(Range(q)) :
        \A i, j \in DOMAIN p :
            i < j => Size(ById[p[i] + 1].tgt_ranges) <= Size(ById[p[j] + 1].tgt_ranges)}

PatchOf(id, len) == [k \in 1..len |-> id]

\* the transfers with the styles that the first loop gives them
Restyled(ById, style) ==
    [i \in DOMAIN ById |-> [ById[i] EXCEPT !.style = style[ById[i].id]]]

RECURSIVE LayoutSkipNone(_, _, _, _, _)
\* the loop over patches that passes over the entries that are None
LayoutSkipNone(ById, patches, k, p, data) ==
    IF k > Len(patches)
    THEN [by_id |-> ById, patch_dat |-> <<data>>, failure |-> ""]
    ELSE IF patches[k] = << >>
    THEN LayoutSkipNone(ById, patches, k + 1, p, data)
    ELSE LET patch == patches[k][1].patch
             id == patches[k][1].xf
         IN LayoutSkipNone([ById EXCEPT ![id + 1].patch_start = p,
                                        ![id + 1].patch_len = Len(patch)],
                           patches, k + 1, p + Len(patch), data \o patch)

RECURSIVE Layout(_, _, _, _, _)
\* the loop over patches from patches[k] on, p bytes and data written so far
Layout(ById, patches, k, p, data) ==
    IF k > Len(patches)
    THEN [by_id |-> ById, patch_dat |-> <<data>>, failure |-> ""]
    ELSE IF patches[k] = << >>
    THEN [by_id |-> ById, patch_dat |-> <<data>>, failure |-> "TypeError"]
    ELSE LET patch == patches[k][1].patch
             id == patches[k][1].xf
         IN Layout([ById EXCEPT ![id + 1].patch_start = p,
                                ![id + 1].patch_len = Len(patch)],
                   patches, k + 1, p + Len(patch), data \o patch)

RECURSIVE Popped(_, _, _)
\* the jobs that workers pop off the sorted queue q when the differ fails for
\* the jobs failed and alive workers are left: a worker ends with the job
\* that fails
Popped(q, failed, alive) ==
    IF q = << >> \/ alive = 0 THEN {}
    ELSE {q[Len(q)]} \cup
         Popped(SubSeq(q, 1, Len(q) - 1), failed,
                IF q[Len(q)] \in failed THEN alive - 1 ELSE alive)

\* patches after the workers have ended
PatchesOf(ById, seq, q, failed, len) ==
    LET jobs == DiffQ(ById, seq)
        ran == Popped(q, failed, threads) \ failed
    IN [k \in DOMAIN jobs |->
           IF jobs[k] \in ran
           THEN <<[patch |-> PatchOf(jobs[k], len[jobs[k]]), xf |-> jobs[k]]>>
           ELSE << >>]

\* ComputePatches with the styles style, the sorted queue q, the differ
\* failing for the jobs failed and giving patches of the lengths len
ComputePatchesResult(ById, seq, style, q, failed, len) ==
    LET S == Restyled(ById, style)
        new == [NoFiles EXCEPT !.new_dat = <<NewData(S, seq, 1)>>]
        r == Layout(S, PatchesOf(S, seq, q, failed, len), 1, 0, << >>)
    IN [by_id |-> r.by_id, files |-> [new EXCEPT !.patch_dat = r.patch_dat],
        failure |-> r.failure]

(***************************************************************************)
(* The inputs.                                                             *)
(***************************************************************************)
A == <<"a">>
B == <<"b">>
DA == <<"d", "/", "a">>

\* the image of total blocks whose block b belongs to domain names[f[b]],
\* to none when f[b] = 0; the file map lists the domains in the order of names
MakeImage(total, f, names, extended) ==
    LET dom(n) == {b \in 0..(total - 1) : f[b] = n}
        present == SelectSeq([n \in 1..Len(names) |-> n], LAMBDA n : dom(n) # {})
    IN [blocksize |-> blocksize,
        total_blocks |-> total,
        care_map |-> {b \in 0..(total - 1) : f[b] # 0},
        file_map |-> [k \in DOMAIN present |->
                         [name |-> names[present[k]], ranges |-> dom(present[k])]],
        extended |-> extended]

ImagesOver(total, names) ==
    {MakeImage(total, f, names, {}) : f \in [0..(total - 1) -> 0..Len(names)]}

TgtImages == ImagesOver(TgtBlocks, <<ZERO, A, B>>)

\* the image used as the source of a full update
EmptyImage ==
    [blocksize |-> blocksize, total_blocks |-> 0, care_map |-> {},
     file_map |-> << >>, extended |-> {}]

\* the source images: every block in a domain, or no block at all
SrcImages ==
    {MakeImage(SrcBlocks, f, <<ZERO, A, B>>, {}) : f \in [0..(SrcBlocks - 1) -> 1..3]}
        \cup {EmptyImage}

\* cache_size and stash_threshold; the thresholds are binary fractions, so
\* that the float arithmetic of the program is exact
CacheConfigs ==
    {[cache_size |-> << >>, stash_threshold |-> <<1, 1>>],
     [cache_size |-> <<blocksize>>, stash_threshold |-> <<1, 1>>],
     [cache_size |-> <<8 * blocksize>>, stash_threshold |-> <<1, 8>>],
     [cache_size |-> <<16 * blocksize>>, stash_threshold |-> <<1, 16>>]}

Start ==
    /\ src_basenames = EmptyDict
    /\ src_numpatterns = EmptyDict
    /\ by_id = << >>
    /\ transfers = << >>
    /\ failure = ""
    /\ ft = 1
    /\ at = AddTransferIdle
    /\ vs = FindVertexSequenceIdle
    /\ wt = WriteTransfersEntry
    /\ cp = ComputePatchesIdle
    /\ rs = ReviseStashSizeIdle
    /\ files = NoFiles

Init ==
    /\ version \in 1..4
    /\ OPTIONS \in CacheConfigs
    /\ version = 1 => ~CacheConfigured
    /\ version = 4 => OPTIONS.stash_threshold[2] \in {1, 8}
    /\ py3 \in BOOLEAN
    /\ threads = 1
    /\ tgt \in TgtImages
    /\ src \in SrcImages
    /\ pc = "AbbreviateSourceNames"
    /\ Start

(***************************************************************************)
(* Compute, one action per call.                                           *)
(***************************************************************************)
Fail(what) == pc' = "error" /\ failure' = what

AbbreviateSourceNames ==
    /\ pc = "AbbreviateSourceNames"
    /\ LET d == AbbreviateSourceNamesResult(src.file_map)
       IN /\ src_basenames' = d.basenames
          /\ src_numpatterns' = d.numpatterns
    /\ pc' = "FindTransfers"
    /\ UNCHANGED <<inputs, rs, cp, files, by_id, transfers, failure, ft, at, vs, wt>>

FindTransfers ==
    /\ pc = "FindTransfers"
    /\ LET r == FindTransfersFrom(1, << >>)
       IN /\ by_id' = r.by_id
          /\ transfers' = IdsOf(r.by_id)
          /\ IF r.at.pc = "return"
             THEN pc' = "GenerateDigraph" /\ failure' = failure
             ELSE Fail(r.at.pc)
    /\ UNCHANGED <<inputs, rs, cp, files, src_basenames, src_numpatterns, ft, at, vs, wt>>

GenerateDigraph ==
    /\ pc = "GenerateDigraph"
    /\ by_id' = GenerateDigraphResult(by_id)
    /\ pc' = "FindVertexSequence"
    /\ UNCHANGED <<inputs, rs, cp, files, src_basenames, src_numpatterns, transfers, failure,
                   ft, at, vs, wt>>

FindVertexSequence ==
    /\ pc = "FindVertexSequence"
    /\ \E v \in FindVertexSequenceLoop(FindVertexSequenceEntry(by_id)) :
          IF v.pc = "IndexError"
          THEN Fail("IndexError") /\ UNCHANGED <<by_id, transfers>>
          ELSE /\ transfers' = NewTransfers(v)
               /\ by_id' = RecordOrder(by_id, NewTransfers(v))
               /\ pc' = IF version = 1 THEN "RemoveBackwardEdges"
                        ELSE "ReverseBackwardEdges"
               /\ failure' = failure
    /\ UNCHANGED <<inputs, rs, cp, files, src_basenames, src_numpatterns, ft, at, vs, wt>>

AfterOrdering ==
    IF version >= 2 /\ CacheConfigured THEN "ReviseStashSize" ELSE "AssertSequenceGood"

RemoveBackwardEdges ==
    /\ pc = "RemoveBackwardEdges"
    /\ LET r == RemoveBackwardEdgesResult(by_id, transfers)
       IN /\ by_id' = r.by_id
          /\ IF r.failure = "" THEN pc' = AfterOrdering /\ failure' = failure
             ELSE Fail(r.failure)
    /\ UNCHANGED <<inputs, rs, cp, files, src_basenames, src_numpatterns, transfers, ft, at, vs, wt>>

ReverseBackwardEdges ==
    /\ pc = "ReverseBackwardEdges"
    /\ LET r == ReverseBackwardEdgesResult(by_id, transfers)
       IN /\ by_id' = r.by_id
          /\ IF r.failure = "" THEN pc' = "ImproveVertexSequence" /\ failure' = failure
             ELSE Fail(r.failure)
    /\ UNCHANGED <<inputs, rs, cp, files, src_basenames, src_numpatterns, transfers, ft, at, vs, wt>>

ImproveVertexSequence ==
    /\ pc = "ImproveVertexSequence"
    /\ LET r == ImproveVertexSequenceResult(by_id, transfers)
       IN /\ by_id' = r.by_id
          /\ transfers' = r.transfers
          /\ IF r.failure = "" THEN pc' = AfterOrdering /\ failure' = failure
             ELSE Fail(r.failure)
    /\ UNCHANGED <<inputs, rs, cp, files, src_basenames, src_numpatterns, ft, at, vs, wt>>

ReviseStashSize ==
    /\ pc = "ReviseStashSize"
    /\ LET r == ReviseStashSizeResult(by_id, transfers)
       IN /\ by_id' = r.by_id
          /\ IF r.failure = "" THEN pc' = "AssertSequenceGood" /\ failure' = failure
             ELSE Fail(r.failure)
    /\ UNCHANGED <<inputs, rs, cp, files, src_basenames, src_numpatterns, transfers, ft, at, vs, wt>>

AssertSequenceGood ==
    /\ pc = "AssertSequenceGood"
    /\ LET r == AssertSequenceGoodResult(by_id, transfers)
       IN IF r = "" THEN pc' = "ComputePatches" /\ failure' = failure
          ELSE Fail(r)
    /\ UNCHANGED <<inputs, rs, cp, files, src_basenames, src_numpatterns, by_id, transfers,
                   ft, at, vs, wt>>

ComputePatches ==
    /\ pc = "ComputePatches"
    /\ \E style \in [Ids -> {"zero", "new", "move", "bsdiff", "imgdiff"}] :
          /\ \A id \in Ids : style[id] \in Resolved(Xf(id))
          /\ LET S == Restyled(by_id, style)
                 jobs == Range(DiffQ(S, transfers))
             IN \E q \in SortedQueues(S, DiffQ(S, transfers)) :
                \E failed \in SUBSET jobs :
                \E len \in [jobs -> 1..MaxPatchLen] :
                   LET r == ComputePatchesResult(by_id, transfers, style, q, failed, len)
                   IN /\ by_id' = r.by_id
                      /\ files' = r.files
                      /\ IF r.failure = "" THEN pc' = "WriteTransfers" /\ failure' = failure
                         ELSE Fail(r.failure)
    /\ UNCHANGED <<inputs, rs, cp, src_basenames, src_numpatterns, transfers,
                   ft, at, vs, wt>>

\* one iteration of the loop of WriteTransfers
WriteTransfersLoop ==
    /\ pc = "WriteTransfers"
    /\ wt.i <= Len(transfers)
    /\ wt' = WriteTransfer(wt, Xf(transfers[wt.i]))
    /\ IF wt'.failure = "" THEN pc' = pc /\ failure' = failure
       ELSE Fail(wt'.failure)
    /\ UNCHANGED <<inputs, rs, cp, files, src_basenames, src_numpatterns, by_id, transfers,
                   ft, at, vs>>

\* the rest of WriteTransfers, up to the writing of the transfer list
WriteTransfersEnd ==
    /\ pc = "WriteTransfers"
    /\ wt.i > Len(transfers)
    /\ wt' = Epilogue(wt)
    /\ IF wt'.failure = ""
       THEN /\ files' = [files EXCEPT !.transfer_list = <<wt'.out>>]
            /\ pc' = "done"
            /\ failure' = failure
       ELSE Fail(wt'.failure) /\ files' = files
    /\ UNCHANGED <<inputs, rs, cp, src_basenames, src_numpatterns, by_id, transfers,
                   ft, at, vs>>

Next ==
    \/ AbbreviateSourceNames
    \/ FindTransfers
    \/ GenerateDigraph
    \/ FindVertexSequence
    \/ RemoveBackwardEdges
    \/ ReverseBackwardEdges
    \/ ImproveVertexSequence
    \/ ReviseStashSize
    \/ AssertSequenceGood
    \/ ComputePatches
    \/ WriteTransfersLoop
    \/ WriteTransfersEnd

Spec == Init /\ [][Next]_vars

(***************************************************************************)
(* FindTransfers step by step: one action per domain of the target file    *)
(* map, and one per stretch of AddTransfer.                                *)
(***************************************************************************)
\* "for tgt_fn, tgt_ranges in self.tgt.file_map.items()": the next domain
FindTransfersDomain ==
    /\ pc = "FindTransfers"
    /\ at.pc = "return"
    /\ ft <= Len(tgt.file_map)
    /\ at' = FindTransfersCall(tgt.file_map[ft].name, tgt.file_map[ft].ranges)
    /\ ft' = ft + 1
    /\ UNCHANGED <<inputs, rs, cp, files, src_basenames, src_numpatterns, by_id, transfers, pc,
                   failure, vs, wt>>

\* AddTransfer up to the head of the splitting loop
AddTransferEnter ==
    /\ pc = "FindTransfers"
    /\ at.pc = "entry"
    /\ LET r == AddTransferEntry(at, by_id)
       IN /\ at' = r.at
          /\ by_id' = r.by_id
          /\ IF r.at.pc = "TypeError" THEN Fail("TypeError")
             ELSE pc' = pc /\ failure' = failure
    /\ UNCHANGED <<inputs, rs, cp, files, src_basenames, src_numpatterns, transfers, ft, vs, wt>>

\* one iteration of the splitting loop
AddTransferIterate ==
    /\ pc = "FindTransfers"
    /\ at.pc = "loop"
    /\ SplitLoopGuard(at)
    /\ at.pieces < MaxPieces
    /\ LET r == AddTransferLoop(at, by_id)
       IN at' = r.at /\ by_id' = r.by_id
    /\ UNCHANGED <<inputs, rs, cp, files, src_basenames, src_numpatterns, transfers, pc, failure,
                   ft, vs, wt>>

\* the splitting loop is left: the remaining blocks
AddTransferRemainder ==
    /\ pc = "FindTransfers"
    /\ at.pc = "loop"
    /\ ~SplitLoopGuard(at)
    /\ LET r == AddTransferRest(at, by_id)
       IN /\ at' = r.at
          /\ by_id' = r.by_id
          /\ IF r.at.pc = "AssertionError" THEN Fail("AssertionError")
             ELSE pc' = pc /\ failure' = failure
    /\ UNCHANGED <<inputs, rs, cp, files, src_basenames, src_numpatterns, transfers, ft, vs, wt>>

\* the file map is exhausted
FindTransfersReturn ==
    /\ pc = "FindTransfers"
    /\ at.pc = "return"
    /\ ft > Len(tgt.file_map)
    /\ transfers' = IdsOf(by_id)
    /\ pc' = "GenerateDigraph"
    /\ UNCHANGED <<inputs, rs, cp, files, src_basenames, src_numpatterns, by_id, failure, ft, at,
                   vs, wt>>

NextSplit ==
    \/ AbbreviateSourceNames
    \/ FindTransfersDomain
    \/ AddTransferEnter
    \/ AddTransferIterate
    \/ AddTransferRemainder
    \/ FindTransfersReturn

InitSplit ==
    /\ Init
    /\ py3 = FALSE

SpecSplit == InitSplit /\ [][NextSplit]_vars

(***************************************************************************)
(* The same steps over images whose domains have paths, so that the names  *)
(* match exactly, by basename, by digit pattern or not at all.             *)
(***************************************************************************)
\* the number of blocks of the target images of SpecNames
NameBlocks == 2

EA == <<"e", "/", "a">>
A1 == <<"a", "1">>
A2 == <<"a", "2">>
EA3 == <<"e", "/", "a", "3">>

Reverse(s) == [i \in DOMAIN s |-> s[Len(s) + 1 - i]]

TgtNames == <<ZERO, COPY, A, DA, A1, B>>
SrcNames == <<ZERO, A, EA, A2, EA3>>

TgtNamedImages ==
    {MakeImage(NameBlocks, f, TgtNames, {}) :
        f \in [0..(NameBlocks - 1) -> 1..Len(TgtNames)]}

\* the source file map iterates in either order of SrcNames
SrcNamedImages ==
    {MakeImage(SrcBlocks, f, names, {}) :
        f \in [0..(SrcBlocks - 1) -> 1..Len(SrcNames)],
        names \in {SrcNames, Reverse(SrcNames)}}

InitNames ==
    /\ version \in {1, 3}
    /\ OPTIONS \in CacheConfigs
    /\ version = 1 => ~CacheConfigured
    /\ version = 3 => OPTIONS.stash_threshold[2] = 8
    /\ py3 = FALSE
    /\ threads = 1
    /\ tgt \in TgtNamedImages
    /\ src \in SrcNamedImages
    /\ pc = "AbbreviateSourceNames"
    /\ Start

SpecNames == InitNames /\ [][NextSplit]_vars

(***************************************************************************)
(* Compute over target images whose __ZERO domain and extended range are   *)
(* about as large as the limit of a zero command.                          *)
(***************************************************************************)
\* how far the ranges to zero reach beyond zero_blocks_limit
ZeroExtra == 6

ZeroSizes ==
    {1, zero_blocks_limit - 1, zero_blocks_limit, zero_blocks_limit + 1,
     zero_blocks_limit + ZeroExtra}

\* the __ZERO domains: one run of blocks, or two runs with a gap
ZeroRanges ==
    {RangeOf(lo, lo + n) : lo \in {0, 2}, n \in ZeroSizes}
        \cup {RangeOf(0, n) \cup RangeOf(n + ZeroExtra, n + 2 * ZeroExtra) : n \in ZeroSizes}

\* the first block after every __ZERO domain
ZeroEnd == zero_blocks_limit + 3 * ZeroExtra + 2

ZeroImages ==
    {[blocksize |-> blocksize, total_blocks |-> ZeroEnd + n,
      care_map |-> z,
      file_map |-> <<[name |-> ZERO, ranges |-> z]>>,
      extended |-> RangeOf(ZeroEnd, ZeroEnd + n)] :
        z \in ZeroRanges, n \in {0, zero_blocks_limit + 1}}

InitZero ==
    /\ version \in 1..4
    /\ OPTIONS \in CacheConfigs
    /\ version <= 2 => ~CacheConfigured
    /\ version >= 3 => OPTIONS.cache_size = <<blocksize>>
    /\ py3 = FALSE
    /\ threads = 1
    /\ tgt \in ZeroImages
    /\ src \in {EmptyImage, MakeImage(SrcBlocks, [b \in 0..(SrcBlocks - 1) |-> 1], <<ZERO>>, {})}
    /\ pc = "AbbreviateSourceNames"
    /\ Start

SpecZero == InitZero /\ [][Next]_vars

\* targets with an extended range: the block past the blocks in care_map
ExtImages ==
    {[t EXCEPT !.total_blocks = @ + 1, !.extended = {TgtBlocks}] : t \in TgtImages}

InitExt ==
    /\ version \in 1..4
    /\ OPTIONS \in CacheConfigs
    /\ version <= 2 => ~CacheConfigured
    /\ version >= 3 => OPTIONS.stash_threshold[2] = 1
    /\ py3 = FALSE
    /\ threads = 1
    /\ tgt \in ExtImages
    /\ src \in SrcImages
    /\ pc = "AbbreviateSourceNames"
    /\ Start

SpecExt == InitExt /\ [][Next]_vars

(***************************************************************************)
(* ReviseStashSize step by step: the def/use map is built, then the walk   *)
(* visits one transfer per step.                                           *)
(***************************************************************************)
ReviseStashSizeEnter ==
    /\ pc = "ReviseStashSize"
    /\ rs.pc = "idle"
    /\ IF StashMapOK(by_id, transfers)
       THEN /\ rs' = [pc |-> "walk", i |-> 1, stashed_blocks |-> 0, new_blocks |-> 0]
            /\ pc' = pc
            /\ failure' = failure
       ELSE Fail("KeyError") /\ rs' = rs
    /\ UNCHANGED <<inputs, cp, files, src_basenames, src_numpatterns, by_id, transfers,
                   ft, at, vs, wt>>

\* one iteration of "for xf in self.transfers"
ReviseStashSizeStep ==
    /\ pc = "ReviseStashSize"
    /\ rs.pc = "walk"
    /\ rs.i <= Len(transfers)
    /\ LET r == ReviseTransfer([by_id |-> by_id, stashed_blocks |-> rs.stashed_blocks,
                                new_blocks |-> rs.new_blocks, failure |-> ""],
                               transfers[rs.i])
       IN /\ by_id' = r.by_id
          /\ rs' = [rs EXCEPT !.i = @ + 1, !.stashed_blocks = r.stashed_blocks,
                              !.new_blocks = r.new_blocks]
          /\ IF r.failure = "" THEN pc' = pc /\ failure' = failure
             ELSE Fail(r.failure)
    /\ UNCHANGED <<inputs, cp, files, src_basenames, src_numpatterns, transfers,
                   ft, at, vs, wt>>

ReviseStashSizeReturn ==
    /\ pc = "ReviseStashSize"
    /\ rs.pc = "walk"
    /\ rs.i > Len(transfers)
    /\ rs' = [rs EXCEPT !.pc = "returned"]
    /\ pc' = "AssertSequenceGood"
    /\ UNCHANGED <<inputs, cp, files, src_basenames, src_numpatterns, by_id, transfers,
                   failure, ft, at, vs, wt>>

NextRevise ==
    \/ AbbreviateSourceNames
    \/ FindTransfers
    \/ GenerateDigraph
    \/ FindVertexSequence
    \/ ReverseBackwardEdges
    \/ ImproveVertexSequence
    \/ ReviseStashSizeEnter
    \/ ReviseStashSizeStep
    \/ ReviseStashSizeReturn
    \/ AssertSequenceGood

InitRevise ==
    /\ Init
    /\ py3 = FALSE
    /\ version >= 2
    /\ CacheConfigured

SpecRevise == InitRevise /\ [][NextRevise]_vars

(***************************************************************************)
(* The constructor, over arguments that it may refuse.                     *)
(***************************************************************************)
\* the versions given to the constructor go up to
MaxVersion == 5

\* images whose file map is no partition of the care map: two domains that
\* overlap, a block of the care map in no domain, a domain beyond the care map
BadMaps ==
    {[EmptyImage EXCEPT !.total_blocks = 2, !.care_map = cm, !.file_map = fm] :
        cm \in {{0, 1}},
        fm \in {<<[name |-> A, ranges |-> {0, 1}], [name |-> B, ranges |-> {1}]>>,
                <<[name |-> A, ranges |-> {0}]>>,
                <<[name |-> A, ranges |-> {0}], [name |-> B, ranges |-> {1, 2}]>>}}

\* images of another block size
BadSizes(images) == {[t EXCEPT !.blocksize = 512] : t \in images}

\* BlockImageDiff.__init__
BlockImageDiffNoVersion ==
    /\ pc = "BlockImageDiff"
    /\ IF tgt.blocksize # 4096 \/ src.blocksize # 4096
       THEN Fail("AssertionError")
       ELSE IF AssertPartition(src.care_map, [k \in DOMAIN src.file_map |-> src.file_map[k].ranges]) # ""
       THEN Fail("AssertionError")
       ELSE IF AssertPartition(tgt.care_map, [k \in DOMAIN tgt.file_map |-> tgt.file_map[k].ranges]) # ""
       THEN Fail("AssertionError")
       ELSE pc' = "AbbreviateSourceNames" /\ failure' = failure
    /\ UNCHANGED <<inputs, rs, cp, files, src_basenames, src_numpatterns, by_id, transfers,
                   ft, at, vs, wt>>

BlockImageDiff ==
    /\ pc = "BlockImageDiff"
    /\ IF version \notin {1, 2, 3, 4}
       THEN Fail("AssertionError")
       ELSE IF tgt.blocksize # 4096 \/ src.blocksize # 4096
       THEN Fail("AssertionError")
       ELSE IF AssertPartition(src.care_map, [k \in DOMAIN src.file_map |-> src.file_map[k].ranges]) # ""
       THEN Fail("AssertionError")
       ELSE IF AssertPartition(tgt.care_map, [k \in DOMAIN tgt.file_map |-> tgt.file_map[k].ranges]) # ""
       THEN Fail("AssertionError")
       ELSE pc' = "AbbreviateSourceNames" /\ failure' = failure
    /\ UNCHANGED <<inputs, rs, cp, files, src_basenames, src_numpatterns, by_id, transfers,
                   ft, at, vs, wt>>

NextNew ==
    \/ BlockImageDiff
    \/ Next

\* the arguments of the constructor and the state that its first lines set up
InitNew ==
    /\ version \in 0..MaxVersion
    /\ OPTIONS \in CacheConfigs
    /\ version <= 2 => ~CacheConfigured
    /\ version >= 3 => OPTIONS.stash_threshold[2] = 8
    /\ py3 = FALSE
    /\ threads = 1
    /\ tgt \in TgtImages \cup BadMaps \cup BadSizes(BadMaps) \cup BadSizes({EmptyImage})
    /\ src \in SrcImages \cup BadMaps \cup BadSizes({EmptyImage})
    /\ pc = "BlockImageDiff"
    /\ Start

SpecNew == InitNew /\ [][NextNew]_vars

(***************************************************************************)
(* ComputePatches step by step: the first loop, the workers that pop a job *)
(* under the lock, run the differ without it and store the patch under it, *)
(* and the loop over patches once every worker is joined.                  *)
(***************************************************************************)
\* the number of worker threads goes up to
MaxThreads == 2

ComputePatchesQueue ==
    /\ pc = "ComputePatches"
    /\ cp.pc = "idle"
    /\ \E style \in [Ids -> {"zero", "new", "move", "bsdiff", "imgdiff"}] :
          /\ \A id \in Ids : style[id] \in Resolved(Xf(id))
          /\ LET S == Restyled(by_id, style)
                 jobs == DiffQ(S, transfers)
             IN /\ by_id' = S
                /\ files' = [files EXCEPT !.new_dat = <<NewData(S, transfers, 1)>>]
                /\ IF jobs = << >>
                   THEN cp' = [cp EXCEPT !.pc = "layout"]
                   ELSE \E q \in SortedQueues(S, jobs) :
                           cp' = [pc |-> "workers",
                                  diff_q |-> q,
                                  patches |-> [k \in DOMAIN jobs |-> << >>],
                                  worker |-> [w \in 1..threads |-> "ready"],
                                  job |-> [w \in 1..threads |-> 0],
                                  patch |-> [w \in 1..threads |-> << >>]]
    /\ UNCHANGED <<inputs, rs, src_basenames, src_numpatterns, transfers, pc, failure,
                   ft, at, vs, wt>>

\* diff_worker that pops the first entry of the queue
DiffWorkerPopFirst(w) ==
    /\ pc = "ComputePatches"
    /\ cp.pc = "workers"
    /\ cp.worker[w] = "ready"
    /\ cp' = IF cp.diff_q = << >>
             THEN [cp EXCEPT !.worker[w] = "returned"]
             ELSE [cp EXCEPT !.worker[w] = "diffing",
                             !.job[w] = cp.diff_q[1],
                             !.diff_q = SubSeq(cp.diff_q, 2, Len(cp.diff_q))]
    /\ UNCHANGED <<inputs, rs, files, src_basenames, src_numpatterns, by_id, transfers,
                   pc, failure, ft, at, vs, wt>>

\* diff_worker: the queue is empty and the worker returns, or it pops a job
DiffWorkerPop(w) ==
    /\ pc = "ComputePatches"
    /\ cp.pc = "workers"
    /\ cp.worker[w] = "ready"
    /\ cp' = IF cp.diff_q = << >>
             THEN [cp EXCEPT !.worker[w] = "returned"]
             ELSE [cp EXCEPT !.worker[w] = "diffing",
                             !.job[w] = cp.diff_q[Len(cp.diff_q)],
                             !.diff_q = SubSeq(cp.diff_q, 1, Len(cp.diff_q) - 1)]
    /\ UNCHANGED <<inputs, rs, files, src_basenames, src_numpatterns, by_id, transfers,
                   pc, failure, ft, at, vs, wt>>

\* compute_patch: the differ gives a patch, or it exits with a status that
\* is not zero and the ValueError ends the thread
DiffWorkerDiff(w) ==
    /\ pc = "ComputePatches"
    /\ cp.pc = "workers"
    /\ cp.worker[w] = "diffing"
    /\ \/ \E len \in 1..MaxPatchLen :
             cp' = [cp EXCEPT !.worker[w] = "storing",
                              !.patch[w] = PatchOf(cp.job[w], len)]
       \/ cp' = [cp EXCEPT !.worker[w] = "dead"]
    /\ UNCHANGED <<inputs, rs, files, src_basenames, src_numpatterns, by_id, transfers,
                   pc, failure, ft, at, vs, wt>>

\* patches[patchnum] = (patch, xf), at the next free place instead
DiffWorkerStoreNext(w) ==
    /\ pc = "ComputePatches"
    /\ cp.pc = "workers"
    /\ cp.worker[w] = "storing"
    /\ LET k == Min({j \in DOMAIN cp.patches : cp.patches[j] = << >>})
       IN cp' = [cp EXCEPT !.worker[w] = "ready",
                           !.patches[k] = <<[patch |-> cp.patch[w], xf |-> cp.job[w]]>>]
    /\ UNCHANGED <<inputs, rs, files, src_basenames, src_numpatterns, by_id, transfers,
                   pc, failure, ft, at, vs, wt>>

\* patches[patchnum] = (patch, xf)
DiffWorkerStore(w) ==
    /\ pc = "ComputePatches"
    /\ cp.pc = "workers"
    /\ cp.worker[w] = "storing"
    /\ cp' = [cp EXCEPT !.worker[w] = "ready",
                        !.patches[patch_num(by_id, transfers, cp.job[w]) + 1] =
                            <<[patch |-> cp.patch[w], xf |-> cp.job[w]]>>]
    /\ UNCHANGED <<inputs, rs, files, src_basenames, src_numpatterns, by_id, transfers,
                   pc, failure, ft, at, vs, wt>>

\* every thread is joined: patch.dat is opened and the patches are laid out
ComputePatchesLayout ==
    /\ pc = "ComputePatches"
    /\ \/ cp.pc = "layout"
       \/ /\ cp.pc = "workers"
          /\ \A w \in 1..threads : cp.worker[w] \in {"returned", "dead"}
    /\ LET r == Layout(by_id, cp.patches, 1, 0, << >>)
       IN /\ by_id' = r.by_id
          /\ files' = [files EXCEPT !.patch_dat = r.patch_dat]
          /\ IF r.failure = "" THEN pc' = "WriteTransfers" /\ failure' = failure
             ELSE Fail(r.failure)
    /\ cp' = [cp EXCEPT !.pc = "ended"]
    /\ UNCHANGED <<inputs, rs, src_basenames, src_numpatterns, transfers, ft, at, vs, wt>>

NextPatch ==
    \/ AbbreviateSourceNames
    \/ FindTransfers
    \/ GenerateDigraph
    \/ FindVertexSequence
    \/ RemoveBackwardEdges
    \/ ReverseBackwardEdges
    \/ ImproveVertexSequence
    \/ ReviseStashSize
    \/ AssertSequenceGood
    \/ ComputePatchesQueue
    \/ \E w \in 1..threads : DiffWorkerPop(w)
    \/ \E w \in 1..threads : DiffWorkerDiff(w)
    \/ \E w \in 1..threads : DiffWorkerStore(w)
    \/ ComputePatchesLayout
    \/ WriteTransfersLoop
    \/ WriteTransfersEnd

InitPatch ==
    /\ version \in {1, 3}
    /\ OPTIONS \in CacheConfigs
    /\ version = 1 => ~CacheConfigured
    /\ version = 3 => OPTIONS.stash_threshold[2] = 8
    /\ py3 = FALSE
    /\ threads \in 1..MaxThreads
    /\ tgt \in TgtImages
    /\ src \in SrcImages
    /\ pc = "AbbreviateSourceNames"
    /\ Start

SpecPatch == InitPatch /\ [][NextPatch]_vars

\* the images whose blocks all belong to the domains a and b, the first
\* block to a and the last to b
PatchImages(total) ==
    {MakeImage(total, f, <<ZERO, A, B>>, {}) :
        f \in {g \in [0..(total - 1) -> 2..3] : g[0] = 2 /\ g[total - 1] = 3}}

InitPatchFair ==
    /\ version \in {1, 3}
    /\ OPTIONS \in CacheConfigs
    /\ version = 1 => ~CacheConfigured
    /\ version = 3 => OPTIONS.stash_threshold[2] = 8
    /\ py3 = FALSE
    /\ threads \in 1..MaxThreads
    /\ tgt \in PatchImages(TgtBlocks)
    /\ src \in PatchImages(SrcBlocks)
    /\ pc = "AbbreviateSourceNames"
    /\ Start

\* the workers run and the main thread goes on when they have ended
SpecPatchFair == InitPatchFair /\ [][NextPatch]_vars /\ WF_vars(NextPatch)

(***************************************************************************)
(* Compute at the versions whose stashes are kept by content hash, over    *)
(* images of three domains of two blocks each, with caches that hold two   *)
(* and a half blocks and four blocks.                                      *)
(***************************************************************************)
StashBlocks == 6

StashConfigs ==
    {[cache_size |-> <<16 * blocksize>>, stash_threshold |-> <<5, 32>>],
     [cache_size |-> <<16 * blocksize>>, stash_threshold |-> <<1, 4>>]}

\* the images whose domains have two blocks each; first is the domain of block 0,
\* or 0 for any domain
StashImages(first) ==
    {MakeImage(StashBlocks, f, <<ZERO, A, B>>, {}) :
        f \in {g \in [0..(StashBlocks - 1) -> 0..3] :
                 /\ first # 0 => g[0] = first
                 /\ \A n \in 1..3 :
                      Cardinality({b \in 0..(StashBlocks - 1) : g[b] = n}) = 2}}

NextStash ==
    \/ AbbreviateSourceNames
    \/ FindTransfers
    \/ GenerateDigraph
    \/ FindVertexSequence
    \/ ReverseBackwardEdges
    \/ ImproveVertexSequence
    \/ ReviseStashSize
    \/ AssertSequenceGood
    \/ ComputePatches
    \/ WriteTransfersLoop
    \/ WriteTransfersEnd

InitStash ==
    /\ version \in 3..4
    /\ OPTIONS \in StashConfigs
    /\ py3 = FALSE
    /\ threads = 1
    /\ tgt \in StashImages(1)
    /\ src \in StashImages(0)
    /\ pc = "AbbreviateSourceNames"
    /\ Start

SpecStash == InitStash /\ [][NextStash]_vars

(***************************************************************************)
(* Compute over images of four files of two blocks each, in which the      *)
(* files read each other's blocks in pairs, so that a stash is used before *)
(* the next one is made.                                                   *)
(***************************************************************************)
\* the number of blocks of these images
SlotBlocks == 8

SlotNames == <<ZERO, A, B, <<"c">>, <<"d">>>>

\* the domain of SlotNames that holds n, none past the last name
SlotDomain(n) == IF n <= Len(SlotNames) THEN n ELSE 0

\* the target: blocks 0 and 1 to a, 2 and 3 to b, 4 and 5 to c, 6 and 7 to d
SlotTarget ==
    MakeImage(SlotBlocks, [b \in 0..(SlotBlocks - 1) |-> SlotDomain(2 + (b \div 2))],
              SlotNames, {})

\* the sources: of four blocks in a row, the first belongs to the second
\* file of the pair, the next two to the first file, and the last to the
\* second file or to no file
SlotSources ==
    {MakeImage(SlotBlocks,
               [b \in 0..(SlotBlocks - 1) |->
                   LET first == 2 + 2 * (b \div 4)
                   IN IF b % 4 = 0 THEN SlotDomain(first + 1)
                      ELSE IF b % 4 = 3 THEN (IF b \in last THEN SlotDomain(first + 1) ELSE 0)
                      ELSE SlotDomain(first)],
               SlotNames, {}) :
        last \in SUBSET {b \in 0..(SlotBlocks - 1) : b % 4 = 3}}

InitSlots ==
    /\ version \in 3..4
    /\ OPTIONS \in StashConfigs
    /\ py3 = FALSE
    /\ threads = 1
    /\ tgt = SlotTarget
    /\ src \in SlotSources
    /\ pc = "AbbreviateSourceNames"
    /\ Start

SpecSlots == InitSlots /\ [][NextStash]_vars

(***************************************************************************)
(* FindVertexSequence, one action per pass over the sinks, per pass over   *)
(* the sources and per pop from the heap.                                  *)
(***************************************************************************)
FindVertexSequenceEnter ==
    /\ pc = "FindVertexSequence"
    /\ vs.pc = "idle"
    /\ vs' = FindVertexSequenceEntry(by_id)
    /\ UNCHANGED <<inputs, rs, cp, files, src_basenames, src_numpatterns, by_id, transfers,
                   pc, failure, ft, at, wt>>

FindVertexSequenceSinks ==
    /\ pc = "FindVertexSequence"
    /\ vs.pc = "sinks"
    /\ vs' \in FindVertexSequenceStep(vs)
    /\ UNCHANGED <<inputs, rs, cp, files, src_basenames, src_numpatterns, by_id, transfers,
                   pc, failure, ft, at, wt>>

FindVertexSequenceSources ==
    /\ pc = "FindVertexSequence"
    /\ vs.pc = "sources"
    /\ vs' \in FindVertexSequenceStep(vs)
    /\ UNCHANGED <<inputs, rs, cp, files, src_basenames, src_numpatterns, by_id, transfers,
                   pc, failure, ft, at, wt>>

FindVertexSequenceHeappop ==
    /\ pc = "FindVertexSequence"
    /\ vs.pc = "heap"
    /\ vs' \in HeapPop(vs)
    /\ IF vs'.pc = "IndexError" THEN Fail("IndexError")
       ELSE pc' = pc /\ failure' = failure
    /\ UNCHANGED <<inputs, rs, cp, files, src_basenames, src_numpatterns, by_id, transfers,
                   ft, at, wt>>

FindVertexSequenceReturn ==
    /\ pc = "FindVertexSequence"
    /\ vs.pc = "record"
    /\ transfers' = NewTransfers(vs)
    /\ by_id' = RecordOrder(by_id, NewTransfers(vs))
    /\ vs' = FindVertexSequenceIdle
    /\ pc' = IF version = 1 THEN "RemoveBackwardEdges" ELSE "ReverseBackwardEdges"
    /\ UNCHANGED <<inputs, rs, cp, files, src_basenames, src_numpatterns, failure, ft, at, wt>>

NextVertex ==
    \/ AbbreviateSourceNames
    \/ FindTransfers
    \/ GenerateDigraph
    \/ FindVertexSequenceEnter
    \/ FindVertexSequenceSinks
    \/ FindVertexSequenceSources
    \/ FindVertexSequenceHeappop
    \/ FindVertexSequenceReturn

SpecVertex == Init /\ [][NextVertex]_vars

(***************************************************************************)
(* Compute with FindVertexSequence step by step.                           *)
(***************************************************************************)
NextSteps ==
    \/ NextVertex
    \/ RemoveBackwardEdges
    \/ ReverseBackwardEdges
    \/ ImproveVertexSequence
    \/ ReviseStashSize
    \/ AssertSequenceGood
    \/ ComputePatches
    \/ WriteTransfersLoop
    \/ WriteTransfersEnd

SpecSteps == Init /\ [][NextSteps]_vars

(***************************************************************************)
(* Properties of the planned sequence.                                     *)
(***************************************************************************)
\* the sequence is final: Compute has reached AssertSequenceGood or is past it
Planned == pc \in {"AssertSequenceGood", "ComputePatches", "WriteTransfers", "done"}

\* the blocks written by the transfers before position t of the sequence
WrittenBefore(t) == UNION {Xf(transfers[k]).tgt_ranges : k \in 1..(t - 1)}

\* C1: in the final sequence no transfer reads from the source image (its
\* src_ranges minus its stashed ranges, below tgt.total_blocks) a block that
\* an earlier transfer writes; the read-side assertion of AssertSequenceGood
\* never fails
C1_NoReadAfterWrite ==
    /\ failure # "read after write"
    /\ Planned =>
         \A t \in DOMAIN transfers :
            {b \in ReadRanges(Xf(transfers[t])) : b < tgt.total_blocks}
                \cap WrittenBefore(t) = {}

\* a checked sequence in which a transfer takes from a stash blocks that an
\* earlier transfer has overwritten
C1_Witness ==
    /\ pc = "ComputePatches"
    /\ \E t \in DOMAIN transfers :
          /\ Xf(transfers[t]).use_stash # << >>
          /\ Xf(transfers[t]).src_ranges \cap WrittenBefore(t) # {}

\* the positions of the sequence whose transfer writes block b
Writers(b) == {t \in DOMAIN transfers : b \in Xf(transfers[t]).tgt_ranges}

\* C2: in the final sequence every block of tgt.care_map is written by
\* exactly one transfer, also after splitting, trimming and conversion to
\* new; the write-side assertions of AssertSequenceGood never fail
C2_WrittenExactlyOnce ==
    /\ failure \notin {"written twice", "not written"}
    /\ Planned => \A b \in tgt.care_map : Cardinality(Writers(b)) = 1

\* a checked sequence that holds the pieces of a split file, or a diff that
\* was trimmed or converted to new
C2_Witness ==
    /\ pc = "ComputePatches"
    /\ tgt.care_map # {}
    /\ \/ \E id \in Ids : Xf(id).tgt_name # ZERO /\ Xf(id).tgt_name[Len(Xf(id).tgt_name)] = "1"
       \/ \E id \in Ids : ~Xf(id).intact
       \/ \E id \in Ids : Xf(id).style = "new" /\ Xf(id).tgt_name = Xf(id).src_name

\* C3: with version >= 2 and a configured cache_size, a plan that has passed
\* ReviseStashSize keeps the peak of the emitter within the budget,
\* max_stashed_blocks * blocksize < cache_size * stash_threshold, after every
\* transfer: the budget assertion of WriteTransfers never fails
C3_BudgetAssertionHolds ==
    (version >= 2 /\ CacheConfigured) =>
        /\ failure # "StashBudget"
        /\ pc \in {"WriteTransfers", "done"} => WithinBudget(wt.max_stashed_blocks)

\* C4: for version >= 2, in the final sequence every stash a transfer uses
\* is defined in the stash_before of a transfer strictly earlier in the
\* sequence, whose tgt_ranges contain the stashed blocks; the emitter never
\* meets a stash that is used before it is defined
C4_StashDefinedBeforeUse ==
    /\ failure # "KeyError"
    /\ (Planned /\ version >= 2) =>
         \A t \in DOMAIN transfers :
            \A k \in DOMAIN Xf(transfers[t]).use_stash :
               \E d \in 1..(t - 1) :
                  /\ Xf(transfers[t]).use_stash[k] \in Range(Xf(transfers[d]).stash_before)
                  /\ Xf(transfers[t]).use_stash[k][2] \subseteq Xf(transfers[d]).tgt_ranges

\* a sequence revised for a configured cache in which a stash is still used
C4_Witness ==
    /\ pc = "AssertSequenceGood"
    /\ CacheConfigured
    /\ \E id \in Ids : Xf(id).use_stash # << >>

\* the source blocks a line of the transfer list reads or stashes
ReadBy(l) == IF l.cmd \in {"move", "bsdiff", "imgdiff", "stash"} THEN l.src ELSE {}

\* the position of the erase command that precedes the main commands, 0 if
\* there is none
EarlyErase ==
    LET first == IF version >= 2 THEN 5 ELSE 3
    IN IF first \in DOMAIN wt.out /\ wt.out[first].cmd = "erase" THEN first ELSE 0

\* C5: for every version the early erase covers the don't-care blocks minus
\* every source range read or stashed by the emitted commands, so that no
\* block it erases is read or stashed by a later command, and the early and
\* the late erase together partition the don't-care blocks
C5_EarlyEraseSparesSources ==
    pc = "done" =>
        LET read == UNION {ReadBy(wt.out[j]) : j \in DOMAIN wt.out}
            early == IF EarlyErase = 0 THEN {} ELSE wt.out[EarlyErase].tgt
            late == IF wt.out[Len(wt.out)].cmd = "erase" /\ EarlyErase # Len(wt.out)
                    THEN wt.out[Len(wt.out)].tgt ELSE {}
        IN /\ early = Subtract(new_dontcare, read)
           /\ \A j \in DOMAIN wt.out : j > EarlyErase => early \cap ReadBy(wt.out[j]) = {}
           /\ early \cap late = {}
           /\ early \cup late = new_dontcare

\* C6: for version >= 2 the source string lists the unstashed source ranges
\* when there are any, and uses the form "<N> - <stash refs>" only when every
\* source block comes from a stash; the mapped positions partition [0, N), so
\* that the AssertPartition of the emitter never fails
C6_SourceStringPartition ==
    version >= 2 =>
        /\ failure # "AssertPartition"
        /\ \A j \in DOMAIN wt.out :
              wt.out[j].cmd \in {"move", "bsdiff", "imgdiff"} =>
                 LET s == wt.out[j].src_str
                     stashed == UNION {s.refs[k][2] : k \in DOMAIN s.refs}
                 IN /\ s.n = Size(wt.out[j].src)
                    /\ s.ranges = "-" <=> Size(stashed) = s.n
                    /\ stashed \cup s.mapped = RangeOf(0, s.n)

\* C7: for version >= 3, once AddTransfer has returned, every diff transfer
\* it has made has at most max_blocks_per_transfer blocks on its source side
\* and on its target side, whatever the two sizes are
C7_PiecesBounded ==
    (version >= 3 /\ CacheConfigured /\ pc = "FindTransfers" /\ at.pc = "return") =>
        \A i \in DOMAIN by_id :
           by_id[i].style = "diff" =>
              /\ Size(by_id[i].src_ranges) <= max_blocks_per_transfer
              /\ Size(by_id[i].tgt_ranges) <= max_blocks_per_transfer

\* C8: every iteration of the splitting loop of AddTransfer peels a
\* non-empty prefix off both sides: the remaining sizes strictly decrease,
\* so the loop ends after finitely many pieces for every cache_size
C8_SplitLoopProgress ==
    [][AddTransferIterate =>
          /\ Size(at'.tgt_ranges) < Size(at.tgt_ranges)
          /\ Size(at'.src_ranges) < Size(at.src_ranges)]_vars

(***************************************************************************)
(* Properties of the choice of a source.                                   *)
(***************************************************************************)
SrcDomains == {src.file_map[i].name : i \in DOMAIN src.file_map}

\* AddTransfer has just been called for a domain of the target file map
Called == pc = "FindTransfers" /\ at.pc = "entry"

\* the source domains with the basename, or with the digit pattern, of name n
SameBasename(n) == {s \in SrcDomains : Basename(s) = Basename(n)}
SamePattern(n) ==
    {s \in SrcDomains : NumPattern(Basename(s)) = NumPattern(Basename(n))}

\* the call is a diff against source domain s
DiffAgainst(s) ==
    /\ at.style = "diff"
    /\ at.src_name = s
    /\ at.src_ranges = FileMapGet(src.file_map, s)

\* the call is a new transfer without a source
NewWithoutSource == at.style = "new" /\ at.src_ranges = {}

\* the transfers made for domain i of the target file map
Group(i) ==
    {k \in DOMAIN by_id :
        \/ by_id[k].tgt_name = tgt.file_map[i].name
        \/ \E p \in 0..MaxPieces :
              by_id[k].tgt_name = SplitName(tgt.file_map[i].name, p)}

\* C9: FindTransfers chooses style and source by strict precedence: __ZERO,
\* __COPY, the exact path, the basename, the digit pattern of the basename,
\* and new when none applies; a later rule applies only when every earlier
\* one fails, and each target domain gets exactly one group of transfers
C9_Precedence ==
    /\ Called =>
         LET n == tgt.file_map[ft - 1].name
         IN /\ at.tgt_name = n
            /\ at.tgt_ranges = tgt.file_map[ft - 1].ranges
            /\ IF n = ZERO
               THEN /\ at.style = "zero"
                    /\ at.src_ranges = IF ZERO \in SrcDomains
                                       THEN FileMapGet(src.file_map, ZERO) ELSE {}
               ELSE IF n = COPY THEN NewWithoutSource
               ELSE IF n \in SrcDomains THEN DiffAgainst(n)
               ELSE IF SameBasename(n) # {}
               THEN \E s \in SameBasename(n) : DiffAgainst(s)
               ELSE IF SamePattern(n) # {}
               THEN \E s \in SamePattern(n) : DiffAgainst(s)
               ELSE NewWithoutSource
    /\ pc = "GenerateDigraph" =>
         /\ \A i \in DOMAIN tgt.file_map :
               /\ Group(i) # {}
               /\ UNION {by_id[k].tgt_ranges : k \in Group(i)} = tgt.file_map[i].ranges
               /\ \A j \in DOMAIN tgt.file_map : i # j => Group(i) \cap Group(j) = {}
         /\ DOMAIN by_id = UNION {Group(i) : i \in DOMAIN tgt.file_map}
         /\ version < 3 => Len(by_id) = Len(tgt.file_map)

\* a domain without an exact or a basename match is diffed by digit pattern
C9_Witness ==
    /\ Called
    /\ at.tgt_name = A1
    /\ SameBasename(A1) = {}
    /\ at.style = "diff"
    /\ at.src_name \in SamePattern(A1)

\* the last domain of the source file map among those of S
LastOf(S) ==
    src.file_map[Max({i \in DOMAIN src.file_map : src.file_map[i].name \in S})].name

\* C10 as stated: a domain without an exact match is diffed by basename only
\* when one source domain alone has the basename; when several source domains
\* share the basename, or the digit pattern, none of them is selected
C10_UniqueBasename ==
    (Called /\ at.tgt_name \notin SrcDomains \cup {ZERO, COPY}) =>
        /\ Cardinality(SameBasename(at.tgt_name)) >= 2 =>
              ~(at.style = "diff" /\ at.src_name \in SameBasename(at.tgt_name))
        /\ (SameBasename(at.tgt_name) = {} /\ Cardinality(SamePattern(at.tgt_name)) >= 2) =>
              ~(at.style = "diff" /\ at.src_name \in SamePattern(at.tgt_name))

\* C10 amended: a domain without an exact match is diffed against the last
\* domain, in the iteration order of the source file map, that has its
\* basename; if none has, against the last that has its digit pattern
C10_LastBasenameWins ==
    (Called /\ at.tgt_name \notin SrcDomains \cup {ZERO, COPY}) =>
        IF SameBasename(at.tgt_name) # {}
        THEN DiffAgainst(LastOf(SameBasename(at.tgt_name)))
        ELSE IF SamePattern(at.tgt_name) # {}
        THEN DiffAgainst(LastOf(SamePattern(at.tgt_name)))
        ELSE NewWithoutSource

\* two source domains share the basename of a target domain that has no
\* exact match, and the domain is diffed
C10_Witness ==
    /\ Called
    /\ at.tgt_name \notin SrcDomains \cup {ZERO, COPY}
    /\ Cardinality(SameBasename(at.tgt_name)) >= 2
    /\ at.style = "diff"

(***************************************************************************)
(* Properties of the transfer list.                                        *)
(***************************************************************************)
\* the positions of the zero commands among the lines out
ZeroLines(out) == {j \in DOMAIN out : out[j].cmd = "zero"}

\* the zero commands among out are disjoint, in ascending block order, of at
\* most zero_blocks_limit blocks each, and cover exactly the blocks of ranges
ZeroChunks(out, ranges) ==
    /\ \A j \in ZeroLines(out) :
          /\ out[j].tgt # {}
          /\ Size(out[j].tgt) <= zero_blocks_limit
    /\ \A j, k \in ZeroLines(out) :
          j < k => Max(out[j].tgt) < Min(out[k].tgt)
    /\ UNION {out[j].tgt : j \in ZeroLines(out)} = ranges

\* C11: every zero command names at most 1024 blocks; the zero commands of
\* a zero transfer are disjoint, ascending and cover tgt_ranges minus
\* src_ranges, those of the extended range cover the extended range, and the
\* blocks counted equal the size of the range
C11_ZeroChunks ==
    /\ \A j \in ZeroLines(wt.out) : Size(wt.out[j].tgt) <= zero_blocks_limit
    /\ (pc = "WriteTransfers" /\ wt.i = 2 /\ Xf(0).style = "zero") =>
          /\ ZeroChunks(wt.out, Subtract(Xf(0).tgt_ranges, Xf(0).src_ranges))
          /\ wt.total = Size(Subtract(Xf(0).tgt_ranges, Xf(0).src_ranges))
    /\ (pc = "done" /\ Len(transfers) = 1 /\ Xf(0).style = "zero") =>
          /\ ZeroChunks(wt.out, Subtract(Xf(0).tgt_ranges, Xf(0).src_ranges)
                                    \cup tgt.extended)
          /\ wt.total = Size(Subtract(Xf(0).tgt_ranges, Xf(0).src_ranges))
                            + Size(tgt.extended)

\* a transfer list with a zero transfer and an extended range that each take
\* more than one zero command
C11_Witness ==
    /\ pc = "done"
    /\ Size(tgt.extended) > zero_blocks_limit
    /\ Size(Subtract(Xf(0).tgt_ranges, Xf(0).src_ranges)) > zero_blocks_limit
    /\ Xf(0).src_ranges # {}
    /\ Cardinality(ZeroLines(wt.out)) = 4


\* the header that the transfer list of w starts with
HeaderLines(w) ==
    IF version = 1 THEN <<Header(version), Header(w.total)>>
    ELSE <<Header(version), Header(w.total), Header(w.next_stash_id),
           Header(w.max_stashed_blocks)>>

\* the lines from, a list of commands of transfers, made into the transfer
\* list to: header, early erase, the commands, the zero commands of the
\* extended range, late erase
InOrder(from, to) ==
    LET head == HeaderLines(to)
        first == erase_first(to.touched_src_ranges)
        last == erase_last(to.touched_src_ranges)
        f == IF first # {} THEN 1 ELSE 0
        l == IF last # {} THEN 1 ELSE 0
        h == Len(head)
        n == Len(from.out)
        e == Len(to.out) - h - f - n - l
        ext == SubSeq(to.out, h + f + n + 1, h + f + n + e)
    IN /\ e >= 0
       /\ SubSeq(to.out, 1, h) = head
       /\ f = 1 => to.out[h + 1] = Erase(first)
       /\ SubSeq(to.out, h + f + 1, h + f + n) = from.out
       /\ \A j \in DOMAIN from.out : from.out[j].cmd \notin {"header", "erase"}
       /\ \A j \in DOMAIN ext : ext[j].cmd = "zero"
       /\ ZeroChunks(ext, tgt.extended)
       /\ l = 1 => to.out[Len(to.out)] = Erase(last)
       /\ to.total = from.total + Size(tgt.extended)

\* C12: the transfer list is the version, the total, from version 2 the
\* number of stash slots and the peak of stashed blocks, the early erase if
\* it is not empty, the commands of the transfers in the order of the
\* sequence, the zero commands of the extended range, the late erase if it is
\* not empty
C12_LineOrder ==
    [][/\ (pc = "WriteTransfers" /\ pc' = "WriteTransfers") =>
             /\ wt'.i = wt.i + 1
             /\ Len(wt'.out) >= Len(wt.out)
             /\ SubSeq(wt'.out, 1, Len(wt.out)) = wt.out
       /\ (pc = "WriteTransfers" /\ pc' = "done") => InOrder(wt, wt')]_vars

\* a transfer list of version 2 or later with an early erase, the commands
\* of two transfers and the zero command of the extended range
C12_Witness ==
    /\ pc = "done"
    /\ version >= 2
    /\ Len(transfers) >= 2
    /\ Len(wt.out) = 8
    /\ wt.out[5].cmd = "erase"
    /\ wt.out[6].cmd # wt.out[7].cmd
    /\ wt.out[8] = Line("zero", << >>, tgt.extended, {}, NoSrc, << >>)


(***************************************************************************)
(* Properties of the files.                                                *)
(***************************************************************************)
RECURSIVE BlocksOf(_, _)
\* the blocks that the commands cmd among the lines out name, in their order
BlocksOf(out, cmd) ==
    IF out = << >> THEN << >>
    ELSE (IF Head(out).cmd = cmd THEN SortedSeq(Head(out).tgt) ELSE << >>)
         \o BlocksOf(Tail(out), cmd)

\* C13: new.dat holds the target blocks of the transfers that the transfer
\* list has as new commands, in the order of these commands, and no blocks
\* of a zero, move, bsdiff or imgdiff command
C13_NewDataFollowsList ==
    pc = "done" =>
        /\ files.new_dat = <<BlocksOf(files.transfer_list[1], "new")>>
        /\ \A id \in Ids :
              Xf(id).style = "new" <=>
                  \E j \in DOMAIN wt.out :
                      wt.out[j].cmd = "new" /\ wt.out[j].tgt = Xf(id).tgt_ranges

\* a list with the new command of a transfer that lost its source, which is
\* not in the place in which it was made, and with a command that is not new
C13_Witness ==
    /\ pc = "done"
    /\ \E id \in Ids :
          /\ Xf(id).style = "new"
          /\ Xf(id).src_name # NoName
          /\ transfers[id + 1] # id
    /\ \E id \in Ids : Xf(id).style \in {"move", "bsdiff"}
    /\ files.new_dat # <<<< >>>>

\* the transfers that have a patch
WithPatch == {id \in Ids : Xf(id).style \in {"bsdiff", "imgdiff"}}

\* the place of transfer id in the sequence
Place(id) == CHOOSE i \in DOMAIN transfers : transfers[i] = id

RECURSIVE TotalLen(_)
\* the sum of the patch_len of the transfers S
TotalLen(S) ==
    IF S = {} THEN 0
    ELSE LET id == CHOOSE x \in S : TRUE IN Xf(id).patch_len + TotalLen(S \ {id})

\* the places in patch.dat that the patch of transfer id takes
PatchRange(id) == (Xf(id).patch_start + 1)..(Xf(id).patch_start + Xf(id).patch_len)

\* C14: once ComputePatches has returned, the patch of a bsdiff or imgdiff
\* transfer starts at the sum of the lengths of the patches of those before
\* it in the sequence, the patches lie in patch.dat one after the other and
\* do not overlap, whatever the number of threads and their interleaving
C14_PatchLayout ==
    pc \in {"WriteTransfers", "done"} =>
        /\ \A id \in WithPatch :
              /\ Xf(id).patch_len >= 1
              /\ Xf(id).patch_start =
                     TotalLen({o \in WithPatch : Place(o) < Place(id)})
              /\ \A k \in PatchRange(id) : files.patch_dat[1][k] = id
        /\ \A id, o \in WithPatch : id # o => PatchRange(id) \cap PatchRange(o) = {}
        /\ files.patch_dat # << >>
        /\ Len(files.patch_dat[1]) = TotalLen(WithPatch)

\* two workers have stored two patches of different lengths, the later one
\* of the sequence first in the queue, and ComputePatches has returned
C14_Witness ==
    /\ pc = "WriteTransfers"
    /\ threads = 2
    /\ Cardinality(WithPatch) = 2
    /\ \A w \in 1..2 : cp.job[w] \in WithPatch
    /\ \E id, o \in WithPatch :
          /\ Place(id) < Place(o)
          /\ Xf(id).patch_len = 2
          /\ Xf(o).patch_len = 1
          /\ Xf(o).patch_start = 2
          /\ Size(Xf(id).tgt_ranges) < Size(Xf(o).tgt_ranges)


(***************************************************************************)
(* Properties of the steps of Compute.                                     *)
(***************************************************************************)
\* C15: for the same transfers and the same edges FindVertexSequence gives
\* one sequence: every sequence that it can end with is the sequence that
\* this run ends with
C15_SameSequence ==
    [][(pc = "FindVertexSequence" /\ pc' \notin {"FindVertexSequence", "error"}) =>
           \A v \in FindVertexSequenceLoop(FindVertexSequenceEntry(by_id)) :
               v.pc = "record" => NewTransfers(v) = transfers']_vars


\* the file map of img is a partition of its care map
IsPartition(img) ==
    /\ \A j, k \in DOMAIN img.file_map :
          j # k => img.file_map[j].ranges \cap img.file_map[k].ranges = {}
    /\ UNION {img.file_map[k].ranges : k \in DOMAIN img.file_map} = img.care_map

\* the arguments that the constructor has to accept
Valid ==
    /\ version \in 1..4
    /\ tgt.blocksize = 4096
    /\ src.blocksize = 4096
    /\ IsPartition(src)
    /\ IsPartition(tgt)

\* the phases that can follow phase p
Following(p) ==
    CASE p = "BlockImageDiff" -> {"AbbreviateSourceNames"}
      [] p = "AbbreviateSourceNames" -> {"FindTransfers"}
      [] p = "FindTransfers" -> {"GenerateDigraph"}
      [] p = "GenerateDigraph" -> {"FindVertexSequence"}
      [] p = "FindVertexSequence" -> {"RemoveBackwardEdges", "ReverseBackwardEdges"}
      [] p = "ReverseBackwardEdges" -> {"ImproveVertexSequence"}
      [] p \in {"RemoveBackwardEdges", "ImproveVertexSequence"} ->
             {"ReviseStashSize", "AssertSequenceGood"}
      [] p = "ReviseStashSize" -> {"AssertSequenceGood"}
      [] p = "AssertSequenceGood" -> {"ComputePatches"}
      [] p = "ComputePatches" -> {"WriteTransfers"}
      [] p = "WriteTransfers" -> {"done"}
      [] OTHER -> {}

\* C16: arguments that are not valid end the constructor in an error with no
\* transfer made; a run that fails in AssertSequenceGood or before has opened
\* no file; the phases follow each other in the order of Compute and a file
\* is only opened in ComputePatches or WriteTransfers
C16_ValidationBeforeOutput ==
    [][/\ (pc = "BlockImageDiff" /\ ~Valid) =>
             pc' = "error" /\ by_id' = << >> /\ transfers' = << >> /\ files' = NoFiles
       /\ (pc = "BlockImageDiff" /\ Valid) => pc' = "AbbreviateSourceNames"
       /\ (pc' = "error" /\ pc \notin {"ComputePatches", "WriteTransfers"}) =>
             files' = NoFiles
       /\ pc' \notin {pc, "error"} => pc' \in Following(pc)
       /\ files' # files => pc \in {"ComputePatches", "WriteTransfers"}]_vars

\* the constructor has refused a target whose domains overlap, the version,
\* the block sizes and the source being valid
C16_Witness ==
    /\ pc = "error"
    /\ by_id = << >>
    /\ files = NoFiles
    /\ version \in 1..4
    /\ tgt.blocksize = 4096
    /\ src.blocksize = 4096
    /\ IsPartition(src)
    /\ src.file_map # << >>
    /\ \E j, k \in DOMAIN tgt.file_map :
          j # k /\ tgt.file_map[j].ranges \cap tgt.file_map[k].ranges # {}


\* the jobs for which the differ has failed
Failed ==
    IF cp.pc \notin {"workers", "ended"} THEN {}
    ELSE {cp.job[w] : w \in {x \in DOMAIN cp.worker : cp.worker[x] = "dead"}}

\* C17: once the differ has failed for a job, the run ends in an error,
\* WriteTransfers is not reached, no transfer list is written and the
\* transfer of the job never gets a patch_start or a patch_len
C17_DifferFailureFatal ==
    /\ [](Failed # {} =>
            /\ pc \in {"ComputePatches", "error"}
            /\ wt = WriteTransfersEntry
            /\ files.transfer_list = << >>
            /\ \A id \in Failed :
                  Xf(id).patch_start = 0 - 1 /\ Xf(id).patch_len = 0 - 1)
    /\ (Failed # {}) ~> (pc = "error")

\* of two workers one has stored the patch of the first job of the
\* sequence, which is recorded, the differ has failed for the other and the
\* run has ended with the TypeError of the loop over patches
C17_Witness ==
    /\ pc = "error"
    /\ failure = "TypeError"
    /\ threads = 2
    /\ Failed # {}
    /\ \E id \in WithPatch \ Failed : Xf(id).patch_start = 0 /\ Xf(id).patch_len >= 1
    /\ files.patch_dat # << >>
    /\ files.transfer_list = << >>


(***************************************************************************)
(* Properties of the stashes.                                              *)
(***************************************************************************)
\* blocks stashed blocks are more than max_allowed =
\* cache_size * stash_threshold / block size
PastMaxAllowed(blocks) ==
    blocks * blocksize * OPTIONS.stash_threshold[2] >
        OPTIONS.cache_size[1] * OPTIONS.stash_threshold[1]

RECURSIVE Simulated(_, _, _)
\* the simulated stashed_blocks before entry k of the stashes sb, n being
\* its value before the first entry: a stash counts unless it goes past
\* max_allowed
Simulated(sb, k, n) ==
    IF k = 1 THEN n
    ELSE LET m == Simulated(sb, k - 1, n)
         IN IF PastMaxAllowed(m + Size(sb[k - 1][2])) THEN m
            ELSE m + Size(sb[k - 1][2])

\* C18: when the walk of ReviseStashSize visits a transfer and a stash of
\* its stash_before would push stashed_blocks past max_allowed, then after
\* the visit the transfer that uses the stash, which is another one, is new
\* with no src_ranges and no use_stash, and the stash is gone from the
\* stash_before of the visited transfer, whose own style changes only if it
\* is a diff whose source overlaps its target and no longer fits
C18_ConsumerConverted ==
    [][(pc = "ReviseStashSize" /\ rs.pc = "walk" /\ rs'.i = rs.i + 1) =>
          LET id == transfers[rs.i]
              sb == Xf(id).stash_before
          IN \A k \in DOMAIN sb :
                PastMaxAllowed(Simulated(sb, k, rs.stashed_blocks) + Size(sb[k][2])) =>
                    /\ pc' # "error"
                    /\ sb[k] \notin Range(by_id'[id + 1].stash_before)
                    /\ by_id'[id + 1].style # Xf(id).style =>
                          /\ Xf(id).style = "diff"
                          /\ Overlaps(Xf(id).src_ranges, Xf(id).tgt_ranges)
                          /\ PastMaxAllowed(
                                 Simulated(sb, Len(sb) + 1, rs.stashed_blocks)
                                     + Size(Xf(id).src_ranges))
                    /\ \E c \in Ids \ {id} :
                          /\ sb[k] \in Range(Xf(c).use_stash)
                          /\ by_id'[c + 1].style = "new"
                          /\ by_id'[c + 1].src_ranges = {}
                          /\ by_id'[c + 1].use_stash = << >>]_vars

\* the walk has replaced a transfer that it has not visited yet, which
\* used a stash
C18_Witness ==
    /\ pc = "ReviseStashSize"
    /\ rs.pc = "walk"
    /\ rs.new_blocks > 0
    /\ \E c \in Ids :
          /\ Place(c) >= rs.i
          /\ Xf(c).style = "new"
          /\ Xf(c).src_name # NoName
          /\ \A id \in Ids : Xf(id).stash_before = << >>


\* the places <<id, k>> at which the stash e stands in a stash_before
Defs(e) == {p \in Ids \X (1..Cardinality(Ids)) :
               p[2] \in DOMAIN Xf(p[1]).stash_before /\ Xf(p[1]).stash_before[p[2]] = e}

\* the places <<id, k>> at which the stash e stands in a use_stash
Uses(e) == {p \in Ids \X (1..Cardinality(Ids)) :
               p[2] \in DOMAIN Xf(p[1]).use_stash /\ Xf(p[1]).use_stash[p[2]] = e}

\* the places of the stashes of the id sid, whatever their ranges
WithId(sid) ==
    {p \in Ids \X (1..Cardinality(Ids)) :
        \/ p[2] \in DOMAIN Xf(p[1]).stash_before /\ Xf(p[1]).stash_before[p[2]][1] = sid
        \/ p[2] \in DOMAIN Xf(p[1]).use_stash /\ Xf(p[1]).use_stash[p[2]][1] = sid}

\* C19: from the return of ReverseBackwardEdges on and after every visit of
\* the walk of ReviseStashSize, every stash of a stash_before stands in the
\* use_stash of exactly one transfer, which is another one, with the same
\* range, and every stash of a use_stash stands in exactly one stash_before
C19_StashesOneToOne ==
    pc \in {"ImproveVertexSequence", "ReviseStashSize", "AssertSequenceGood"} =>
        \A id \in Ids :
            /\ Len(Xf(id).stash_before) <= Cardinality(Ids)
            /\ Len(Xf(id).use_stash) <= Cardinality(Ids)
            /\ \A e \in Range(Xf(id).stash_before) :
                  /\ Cardinality(Uses(e)) = 1
                  /\ \A p \in Uses(e) : p[1] # id
                  /\ Cardinality(WithId(e[1])) = 2
            /\ \A e \in Range(Xf(id).use_stash) :
                  /\ Cardinality(Defs(e)) = 1
                  /\ Cardinality(WithId(e[1])) = 2

\* the walk has visited a transfer and replaced another, whose stash is
\* gone, and a stash is left
C19_Witness ==
    /\ pc = "ReviseStashSize"
    /\ rs.pc = "walk"
    /\ rs.i > 1
    /\ rs.new_blocks > 0
    /\ \E id \in Ids : Xf(id).stash_before # << >>


(***************************************************************************)
(* Properties of the stash table of the emitter.                           *)
(***************************************************************************)
\* the count of hash h in the table d, 0 when the table does not hold it
Count(d, h) == IF h \in DOMAIN d THEN d[h] ELSE 0

\* the number of entries of the list of stashes l whose content has hash h
WithHash(l, h) == Cardinality({k \in DOMAIN l : HashBlocks(l[k][2]) = h})

\* the keys of the lines that the step appends whose command is cmd
Appended(cmd) ==
    LET new == SubSeq(wt'.out, Len(wt.out) + 1, Len(wt'.out))
        sel == SelectSeq(new, LAMBDA l : l.cmd = cmd)
    IN [j \in DOMAIN sel |-> sel[j].key]

RECURSIVE BlocksOfKeys(_)
BlocksOfKeys(keys) ==
    IF keys = << >> THEN 0 ELSE Len(Head(keys)) + BlocksOfKeys(Tail(keys))

\* C20: at versions 3 and above, in every iteration of the loop of the emitter,
\* no hash is used more often than its count and the stashes of the transfer
\* allow; when the iteration ends well, the count of every hash is its old
\* count plus the stashes minus the uses of the transfer, a hash in the table
\* has a count of at least 1, one stash line is appended for each hash that
\* was absent and is stashed, one free line for each hash that is used and
\* ends absent, and the occupancy moves by the blocks of those lines.
C20_RefCountedStashes ==
    [][(pc = "WriteTransfers" /\ version >= 3 /\ wt.i <= Len(transfers)) =>
        LET xf == Xf(transfers[wt.i])
            hashes == {HashBlocks(xf.stash_before[k][2]) : k \in DOMAIN xf.stash_before}
                        \cup {HashBlocks(xf.use_stash[k][2]) : k \in DOMAIN xf.use_stash}
                        \cup DOMAIN wt.hashes \cup DOMAIN wt'.hashes
            stashed == Appended("stash")
            freed == Appended("free")
        IN /\ \A h \in hashes :
                WithHash(xf.use_stash, h)
                    <= Count(wt.hashes, h) + WithHash(xf.stash_before, h)
           /\ wt'.failure = "" =>
                /\ \A h \in hashes :
                     Count(wt'.hashes, h)
                        = Count(wt.hashes, h) + WithHash(xf.stash_before, h)
                            - WithHash(xf.use_stash, h)
                /\ \A h \in DOMAIN wt'.hashes : wt'.hashes[h] >= 1
                /\ Range(stashed)
                     = {h \in hashes : h \notin DOMAIN wt.hashes
                                        /\ WithHash(xf.stash_before, h) >= 1}
                /\ Len(stashed) = Cardinality(Range(stashed))
                /\ Range(freed)
                     = {h \in hashes : h \notin DOMAIN wt'.hashes
                                        /\ WithHash(xf.use_stash, h) >= 1}
                /\ Len(freed) = Cardinality(Range(freed))
                /\ wt'.stashed_blocks
                     = wt.stashed_blocks + BlocksOfKeys(stashed) - BlocksOfKeys(freed)
      ]_vars

\* a run that ends well after two stashes of one hash: one stash line, one free line
C20_Witness ==
    /\ pc = "done"
    /\ version >= 3
    /\ wt.next_stash_id >= 2
    /\ Cardinality({j \in DOMAIN wt.out : wt.out[j].cmd = "stash"}) = 1
    /\ Cardinality({j \in DOMAIN wt.out : wt.out[j].cmd = "free"}) = 1


(***************************************************************************)
(* Properties of the digraph.                                              *)
(***************************************************************************)
\* the weights of the entries that the ordered dictionary d has for id
WeightsOf(d, id) == {d[k][2] : k \in {j \in DOMAIN d : d[j][1] = id}}

NoDuplicateKeys(d) == \A j, k \in DOMAIN d : d[j][1] = d[k][1] => j = k

\* C21: GenerateDigraph leaves, for all distinct transfers a and b, a in
\* b.goes_before exactly when the target of a meets the source of b, b in
\* a.goes_after exactly then too, both with the same weight, which is the
\* size of the overlap, or 0 when b reads the __ZERO domain; and no transfer
\* in its own goes_before or goes_after
C21_DigraphEdges ==
    [][pc = "GenerateDigraph" =>
        \A i, j \in DOMAIN by_id' :
            LET a == by_id'[i]
                b == by_id'[j]
                overlap == a.tgt_ranges \cap b.src_ranges
            IN /\ NoDuplicateKeys(b.goes_before) /\ NoDuplicateKeys(a.goes_after)
               /\ i = j => /\ a.id \notin Keys(a.goes_before)
                           /\ a.id \notin Keys(a.goes_after)
               /\ i # j =>
                    /\ a.id \in Keys(b.goes_before) <=> overlap # {}
                    /\ b.id \in Keys(a.goes_after) <=> a.id \in Keys(b.goes_before)
                    /\ WeightsOf(b.goes_before, a.id) = WeightsOf(a.goes_after, b.id)
                    /\ overlap # {} =>
                         WeightsOf(b.goes_before, a.id) =
                            {IF b.src_name = ZERO THEN 0 ELSE Cardinality(overlap)}]_vars

\* a digraph with an edge of weight 0 for a read of the __ZERO domain, an edge
\* of positive weight, and a transfer that reads what it writes
C21_Witness ==
    /\ pc = "FindVertexSequence"
    /\ \E i, j \in DOMAIN by_id :
          /\ by_id[j].src_name = ZERO
          /\ by_id[i].tgt_ranges \cap by_id[j].src_ranges # {}
          /\ <<by_id[i].id, 0>> \in Range(by_id[j].goes_before)
    /\ \E i \in DOMAIN by_id : \E e \in Range(by_id[i].goes_before) : e[2] >= 1
    /\ \E i \in DOMAIN by_id :
          /\ by_id[i].tgt_ranges \cap by_id[i].src_ranges # {}
          /\ by_id[i].goes_before # << >>


(***************************************************************************)
(* Properties of FindVertexSequence.                                       *)
(***************************************************************************)
\* C22: FindVertexSequence does not end in an error, and when it returns
\* every transfer is once in the new self.transfers, the order of each is
\* its index there, and goes_before and goes_after of each are as before
C22_SequenceIsPermutation ==
    [][pc = "FindVertexSequence" =>
        /\ pc' # "error"
        /\ pc' # pc =>
             /\ Len(transfers') = Len(by_id)
             /\ Range(transfers') = Ids
             /\ \A i \in DOMAIN transfers' : by_id'[transfers'[i] + 1].order = i - 1
             /\ \A k \in DOMAIN by_id :
                   /\ by_id'[k].goes_before = by_id[k].goes_before
                   /\ by_id'[k].goes_after = by_id[k].goes_after]_vars

\* the sum of the weights of the entries of the ordered dictionary d whose
\* key is in G
RECURSIVE WeightWithin(_, _)
WeightWithin(d, G) ==
    IF d = << >> THEN 0
    ELSE (IF Head(d)[1] \in G THEN Head(d)[2] ELSE 0) + WeightWithin(Tail(d), G)

\* the score of u in the graph G: its edges to the vertices of G that go
\* before it, minus those that go after it
ScoreWithin(u, G) ==
    WeightWithin(Xf(u).goes_before, G) - WeightWithin(Xf(u).goes_after, G)

\* C23: when the sinks and the sources are drained and the graph is not empty,
\* the heap is not empty and a pop does not fail; a vertex that a pop appends to
\* s1 is in the graph, has the greatest score among the vertices of the graph,
\* and comes from an item of the heap that names it with that score
C23_HeapYieldsBest ==
    [][(pc = "FindVertexSequence" /\ vs.pc = "heap") =>
        /\ vs.G # {} /\ vs.sinks = {} /\ vs.sources = {}
        /\ vs.heap # << >>
        /\ vs'.pc # "IndexError"
        /\ vs'.s1 # vs.s1 =>
             LET u == vs'.s1[Len(vs'.s1)]
             IN /\ vs'.s1 = Append(vs.s1, u)
                /\ u \in vs.G
                /\ \A x \in vs.G : ScoreWithin(x, vs.G) <= ScoreWithin(u, vs.G)
                /\ \E i \in DOMAIN vs.heap :
                      vs.heap[i] = HeapItem(u, ScoreWithin(u, vs.G))
        /\ vs'.s1 = vs.s1 => vs'.G = vs.G]_vars


(***************************************************************************)
(* Properties of ReverseBackwardEdges.                                     *)
(***************************************************************************)
\* the edges xf -> u of the digraph ById: u is in xf.goes_before
EdgesOf(ById) ==
    {e \in Ids \X Ids : e[2] \in Keys(ById[e[1] + 1].goes_before)}

\* the edges that the order of ById violates
ViolatedIn(ById) ==
    {e \in EdgesOf(ById) : ById[e[1] + 1].order >= ById[e[2] + 1].order}

\* the places <<id, k>> of the stashes of id sid in the stash_before of ById,
\* and in the use_stash
StashPlaces(ById, sid) ==
    {q \in Ids \X (1..Cardinality(Ids) * Cardinality(Ids)) :
        /\ q[2] \in DOMAIN ById[q[1] + 1].stash_before
        /\ ById[q[1] + 1].stash_before[q[2]][1] = sid}
UsePlaces(ById, sid) ==
    {q \in Ids \X (1..Cardinality(Ids) * Cardinality(Ids)) :
        /\ q[2] \in DOMAIN ById[q[1] + 1].use_stash
        /\ ById[q[1] + 1].use_stash[q[2]][1] = sid}

\* C24: ReverseBackwardEdges does not fail; every transfer gets as many
\* entries in stash_before as violated edges end at it and as many in
\* use_stash as violated edges start at it; for a violated edge xf -> u one
\* stash of the overlap stands in u.stash_before and xf.use_stash and the
\* edge has moved from xf.goes_before and u.goes_after to xf.goes_after and
\* u.goes_before; the other edges stay; the ids are 0, 1, 2, ..., each used
\* for one stash; of two transfers that read each other's target, one edge
\* is reversed and there is one stash between them
C24_OneStashPerViolatedEdge ==
    [][pc = "ReverseBackwardEdges" =>
        LET violated == ViolatedIn(by_id)
            n == Cardinality(violated)
        IN /\ pc' # "error"
           /\ \A id \in Ids :
                 /\ Len(by_id'[id + 1].stash_before)
                       = Cardinality({e \in violated : e[2] = id})
                 /\ Len(by_id'[id + 1].use_stash)
                       = Cardinality({e \in violated : e[1] = id})
           /\ \A e \in violated :
                 LET xf == by_id'[e[1] + 1]
                     u == by_id'[e[2] + 1]
                     overlap == xf.src_ranges \cap u.tgt_ranges
                 IN /\ \E sid \in 0..(n - 1) :
                          /\ <<sid, overlap>> \in Range(u.stash_before)
                          /\ <<sid, overlap>> \in Range(xf.use_stash)
                    /\ u.id \notin Keys(xf.goes_before)
                    /\ xf.id \notin Keys(u.goes_after)
                    /\ u.id \in Keys(xf.goes_after)
                    /\ xf.id \in Keys(u.goes_before)
           /\ \A e \in EdgesOf(by_id) \ violated :
                 /\ e[2] \in Keys(by_id'[e[1] + 1].goes_before)
                 /\ e[1] \in Keys(by_id'[e[2] + 1].goes_after)
           /\ \A sid \in 0..(n - 1) :
                 /\ Cardinality(StashPlaces(by_id', sid)) = 1
                 /\ Cardinality(UsePlaces(by_id', sid)) = 1
           /\ \A e \in EdgesOf(by_id) :
                 <<e[2], e[1]>> \in EdgesOf(by_id) =>
                    /\ Cardinality(violated \cap {e, <<e[2], e[1]>>}) = 1
                    /\ Cardinality(
                          {st \in Range(by_id'[e[1] + 1].stash_before) :
                              st \in Range(by_id'[e[2] + 1].use_stash)}
                          \cup {st \in Range(by_id'[e[2] + 1].stash_before) :
                                  st \in Range(by_id'[e[1] + 1].use_stash)}) = 1]_vars

\* two stashes after ReverseBackwardEdges, one of them between two transfers
\* that read each other's target, and an edge that the order satisfied
C24_Witness ==
    /\ pc = "ImproveVertexSequence"
    /\ StashPlaces(by_id, 0) # {}
    /\ StashPlaces(by_id, 1) # {}
    /\ \E x, u \in Ids :
          /\ x # u
          /\ Xf(x).src_ranges \cap Xf(u).tgt_ranges # {}
          /\ Xf(u).src_ranges \cap Xf(x).tgt_ranges # {}
          /\ Xf(x).use_stash # << >>
    /\ \E x, u \in Ids :
          /\ u \in Keys(Xf(x).goes_before)
          /\ Xf(x).src_ranges \cap Xf(u).tgt_ranges # {}


\* C25: ReverseBackwardEdges leaves a digraph whose edges all agree with the
\* order: every transfer has a smaller order than those in its goes_before;
\* goes_before and goes_after mirror each other; and the edges are those the
\* order satisfied before together with the violated ones turned round, so
\* that no edge put in by a reversal has been reversed again
C25_EdgesFollowOrder ==
    [][pc = "ReverseBackwardEdges" =>
        /\ pc' # "error"
        /\ \A x \in DOMAIN by_id' : \A y \in Keys(by_id'[x].goes_before) :
              by_id'[x].order < by_id'[y + 1].order
        /\ \A x, y \in DOMAIN by_id' :
              by_id'[y].id \in Keys(by_id'[x].goes_before)
                 <=> by_id'[x].id \in Keys(by_id'[y].goes_after)
        /\ EdgesOf(by_id')
              = (EdgesOf(by_id) \ ViolatedIn(by_id))
                   \cup {<<e[2], e[1]>> : e \in ViolatedIn(by_id)}]_vars

\* after ReverseBackwardEdges: an edge that a reversal has put in, between two
\* transfers of which only one reads the other's target, and an edge kept
C25_Witness ==
    /\ pc = "ImproveVertexSequence"
    /\ \E x, u \in Ids :
          /\ <<u, None>> \in Range(Xf(x).goes_after)
          /\ Xf(u).src_ranges \cap Xf(x).tgt_ranges = {}
    /\ \E x \in Ids : \E e \in Range(Xf(x).goes_before) : e[2] # None


(***************************************************************************)
(* Properties of ImproveVertexSequence.                                    *)
(***************************************************************************)
\* the transfers that stand before place i of seq
Placed(seq, i) == {seq[k] : k \in 1..(i - 1)}

\* the transfers not in placed all of whose goes_after are in placed
Ready(placed) == {u \in Ids \ placed : Keys(Xf(u).goes_after) \subseteq placed}

\* t comes no later than r by NetStashChange, then by order
NoLater(t, r) ==
    \/ NetStashChange(Xf(t)) < NetStashChange(Xf(r))
    \/ /\ NetStashChange(Xf(t)) = NetStashChange(Xf(r))
       /\ Xf(t).order <= Xf(r).order

\* C26: ImproveVertexSequence does not fail; the new self.transfers holds
\* every transfer once and the order of each is its place there; every
\* transfer stands after those of its goes_after; and the transfer at each
\* place is, among those not placed yet whose goes_after are all placed, the
\* one of least NetStashChange, and of least former order among equals
C26_GreedyTopologicalSort ==
    [][pc = "ImproveVertexSequence" =>
        /\ pc' # "error"
        /\ Len(transfers') = Cardinality(Ids)
        /\ Range(transfers') = Ids
        /\ \A i \in DOMAIN transfers' :
              LET t == transfers'[i]
                  ready == Ready(Placed(transfers', i))
              IN /\ by_id'[t + 1].order = i - 1
                 /\ Keys(Xf(t).goes_after) \subseteq Placed(transfers', i)
                 /\ t \in ready
                 /\ \A r \in ready : NoLater(t, r)]_vars

\* after ImproveVertexSequence: of two transfers that could both be placed,
\* the one of smaller NetStashChange stands first
C26_Witness ==
    /\ pc = "ReviseStashSize"
    /\ rs.pc = "idle"
    /\ \E i, j \in DOMAIN transfers :
          /\ i < j
          /\ transfers[j] \in Ready(Placed(transfers, i))
          /\ NetStashChange(Xf(transfers[i])) < NetStashChange(Xf(transfers[j]))

(***************************************************************************)
(* Properties of RemoveBackwardEdges                                       *)
(***************************************************************************)
\* the transfers u of a violated edge id -> u of ById
ViolatedFrom(ById, id) == {e[2] : e \in {v \in ViolatedIn(ById) : v[1] = id}}

\* the blocks written by the transfers of the set U
TargetsOf(ById, U) == UNION {ById[u + 1].tgt_ranges : u \in U}

\* one run of RemoveBackwardEdges that ends well
RemoveBackwardEdgesDone ==
    pc = "RemoveBackwardEdges" /\ pc' = AfterOrdering

\* the words of the commands written so far
CommandsOut == {wt.out[j].cmd : j \in DOMAIN wt.out}

\* C27: at version 1, RemoveBackwardEdges leaves the source of every transfer
\* xf with a violated edge xf -> u (xf.order >= u.order) disjoint from
\* u.tgt_ranges (it is the old source less the targets of all such u) and
\* marks xf not intact; a diff transfer whose source becomes empty becomes
\* new; a transfer with no violated edge keeps its src_ranges, style and
\* intact; and no transfer ever has a stash_before or use_stash entry, so
\* that no stash or free command is written.
C27_TrimmedSources ==
    /\ [][RemoveBackwardEdgesDone =>
            \A id \in Ids :
               LET V == ViolatedFrom(by_id, id)
                   x == by_id[id + 1]
                   y == by_id'[id + 1]
               IN /\ V # {} =>
                        /\ y.src_ranges = x.src_ranges \ TargetsOf(by_id, V)
                        /\ \A u \in V : ~Overlaps(y.src_ranges, by_id'[u + 1].tgt_ranges)
                        /\ y.intact = FALSE
                  /\ (x.style = "diff" /\ y.src_ranges = {}) => y.style = "new"
                  /\ V = {} =>
                        /\ y.src_ranges = x.src_ranges
                        /\ y.style = x.style
                        /\ y.intact = x.intact]_vars
    /\ [](version = 1 =>
            /\ \A id \in Ids : Xf(id).stash_before = << >> /\ Xf(id).use_stash = << >>
            /\ CommandsOut \cap {"stash", "free"} = {})

\* a version 1 run has written its commands after trimming one source to
\* nothing, which turned a diff into new, and another source to a part of it
C27_Witness ==
    /\ version = 1
    /\ pc = "done"
    /\ failure = ""
    /\ \E a, b \in Ids :
          /\ Xf(a).style = "new" /\ ~Xf(a).intact
          /\ Xf(b).style # "new" /\ ~Xf(b).intact /\ Xf(b).src_ranges # {}

(***************************************************************************)
(* Properties of the implicit stash                                        *)
(***************************************************************************)
\* stashed_blocks of the walk of ReviseStashSize after the use_stash loop of
\* its visit t, over the stash lists that the walk left
RECURSIVE RevisedOccupancy(_)
RevisedOccupancy(t) ==
    IF t = 0 THEN 0
    ELSE RevisedOccupancy(t - 1) + NetStashChange(Xf(transfers[t]))

\* WriteTransfers is at a command of version >= 3 that reads blocks it writes
EmitsImplicitStash ==
    /\ pc = "WriteTransfers"
    /\ wt.i <= Len(transfers)
    /\ version >= 3
    /\ CacheConfigured
    /\ LET xf == Xf(transfers[wt.i])
       IN /\ xf.style \in {"move", "bsdiff", "imgdiff"}
          /\ xf.src_ranges # xf.tgt_ranges
          /\ Overlaps(xf.src_ranges, xf.tgt_ranges)

\* C28: at version >= 3 a diff transfer whose src_ranges overlap its own
\* tgt_ranges and that ReviseStashSize left as it was is written as a
\* command, and the occupancy stashed_blocks + |src_ranges| that
\* ReviseStashSize tested for it is the one that holds while the command is
\* written and that WriteTransfers records in max_stashed_blocks.
C28_ImplicitStashOccupancy ==
    [][EmitsImplicitStash =>
          LET xf == Xf(transfers[wt.i])
              w1 == StashBefore(wt, xf.stash_before, 1)
          IN /\ wt'.failure = ""
             /\ w1.stashed_blocks = RevisedOccupancy(wt.i)
             /\ wt'.max_stashed_blocks >=
                    RevisedOccupancy(wt.i) + Size(xf.src_ranges)]_vars

(***************************************************************************)
(* Properties of the pieces of a split                                     *)
(***************************************************************************)
\* the call of AddTransfer that is running or has just returned
CurrentCall == FindTransfersCall(tgt.file_map[ft - 1].name, tgt.file_map[ft - 1].ranges)

\* that call splits: it is past the small-file test of a diff with split set
Splitting ==
    /\ pc = "FindTransfers"
    /\ ft > 1
    /\ at.pc \in {"loop", "return"}
    /\ CurrentCall.style = "diff"
    /\ CurrentCall.split
    /\ CacheConfigured
    /\ \/ Size(CurrentCall.tgt_ranges) > max_blocks_per_transfer
       \/ Size(CurrentCall.src_ranges) > max_blocks_per_transfer

\* the number of pieces the call has made so far: those of the loop, and
\* the remainder once the call has returned
PiecesMade ==
    at.pieces + (IF at.pc = "return" /\ (at.tgt_ranges # {} \/ at.src_ranges # {})
                 THEN 1 ELSE 0)

\* piece k of the call, the first one being piece 0
Piece(k) == by_id[Len(by_id) - PiecesMade + k + 1]

\* every block of a is below every block of b
Below(a, b) == \A x \in a : \A y \in b : x < y

\* C29: the pieces that AddTransfer makes of a diff transfer are named
\* name-0, name-1, ... in the order they are made, every piece has a
\* non-empty source and a non-empty target, the pieces are peeled in
\* ascending block order and are pairwise disjoint on each side, the
\* remainder assertion does not fail when both sides of the call are not
\* empty, and when the call has returned the targets of the pieces make up
\* the tgt_ranges of the call and their sources its src_ranges.
C29_SplitPreservesBlocks ==
    /\ (at.pc = "AssertionError" /\ ft > 1) =>
          (CurrentCall.tgt_ranges = {} \/ CurrentCall.src_ranges = {})
    /\ Splitting =>
          /\ PiecesMade <= Len(by_id)
          /\ \A k \in 0..(PiecesMade - 1) :
                /\ Piece(k).tgt_name = SplitName(CurrentCall.tgt_name, k)
                /\ Piece(k).src_name = SplitName(CurrentCall.src_name, k)
                /\ Piece(k).tgt_ranges # {}
                /\ Piece(k).src_ranges # {}
                /\ \A j \in 0..(k - 1) :
                      /\ Below(Piece(j).tgt_ranges, Piece(k).tgt_ranges)
                      /\ Below(Piece(j).src_ranges, Piece(k).src_ranges)
          /\ at.pc = "return" =>
                /\ UNION {Piece(k).tgt_ranges : k \in 0..(PiecesMade - 1)} =
                      CurrentCall.tgt_ranges
                /\ UNION {Piece(k).src_ranges : k \in 0..(PiecesMade - 1)} =
                      CurrentCall.src_ranges

(***************************************************************************)
(* Properties of the patch workers                                         *)
(***************************************************************************)
\* the jobs of the pool, those still queued, those a worker holds, and
\* those whose slot of patches is filled
Jobs == Range(DiffQ(by_id, transfers))
Queued == Range(cp.diff_q)
Holding == {w \in DOMAIN cp.worker : cp.worker[w] \in {"diffing", "storing"}}
Held == {cp.job[w] : w \in Holding}
Stored == {id \in Jobs : cp.patches[patch_num(by_id, transfers, id) + 1] # << >>}

tgt_size(id) == Size(Xf(id).tgt_ranges)

\* worker w pops a job in this step, and stores a patch in this step
Pops(w) ==
    cp.pc = "workers" /\ cp.worker[w] = "ready" /\ cp'.worker[w] = "diffing"
Stores(w) ==
    cp.pc = "workers" /\ cp.worker[w] = "storing" /\ cp'.worker[w] = "ready"

\* the threads are joined in this step
Joined == cp.pc = "workers" /\ cp'.pc = "ended"

\* C30: in the pool of patch workers, whatever the interleaving and the
\* number of threads, every job is in exactly one place (queued once, held
\* by one worker, stored in its slot, or lost with the worker whose differ
\* failed), so that it is popped by exactly one worker; a worker pops a job
\* that is no smaller than any job still queued and no larger than any job
\* popped before; a worker writes only the slot patches[patch_num] of the job
\* it holds, and the slot is empty before; when the threads are joined and
\* no differ has failed, every slot is filled and the queue is empty; and
\* the pool always ends.
C30_WorkerPool ==
    /\ [](cp.pc = "workers" =>
            /\ Len(cp.diff_q) = Cardinality(Queued)
            /\ \A v, w \in Holding : cp.job[v] = cp.job[w] => v = w
            /\ Queued \cap Held = {}
            /\ Queued \cap Stored = {}
            /\ Held \cap Stored = {}
            /\ Held \cap Failed = {}
            /\ Queued \cup Held \cup Stored \cup Failed = Jobs)
    /\ [][\A w \in DOMAIN cp.worker :
             /\ Pops(w) =>
                   /\ cp'.job[w] \in Queued
                   /\ Range(cp'.diff_q) = Queued \ {cp'.job[w]}
                   /\ \A v \in DOMAIN cp.worker \ {w} :
                         cp'.worker[v] = cp.worker[v] /\ cp'.job[v] = cp.job[v]
                   /\ \A id \in Range(cp'.diff_q) : tgt_size(id) <= tgt_size(cp'.job[w])
                   /\ \A id \in Jobs \ Queued : tgt_size(cp'.job[w]) <= tgt_size(id)
                   /\ cp'.patches = cp.patches
             /\ Stores(w) =>
                   LET k == patch_num(by_id, transfers, cp.job[w]) + 1
                   IN /\ cp.patches[k] = << >>
                      /\ cp'.patches[k] = <<[patch |-> cp.patch[w], xf |-> cp.job[w]]>>
                      /\ \A j \in DOMAIN cp.patches \ {k} : cp'.patches[j] = cp.patches[j]
                      /\ cp'.diff_q = cp.diff_q]_vars
    /\ [][(Joined /\ Failed = {}) =>
             /\ cp.diff_q = << >>
             /\ Stored = Jobs
             /\ \A k \in DOMAIN cp.patches : cp.patches[k] # << >>]_vars
    /\ (cp.pc = "workers") ~> (cp.pc = "ended")

\* two workers have held two jobs of different sizes at the same time: the
\* one that popped the smaller job has stored its patch in its slot while
\* the other, which popped first, is about to store its own
C30_Witness ==
    /\ threads = 2
    /\ cp.pc = "workers"
    /\ Failed = {}
    /\ \E v, w \in DOMAIN cp.worker :
          /\ cp.worker[v] = "storing"
          /\ cp.worker[w] = "ready"
          /\ cp.job[w] \in Stored
          /\ tgt_size(cp.job[w]) < tgt_size(cp.job[v])
          /\ patch_num(by_id, transfers, cp.job[w]) # patch_num(by_id, transfers, cp.job[v])

(***************************************************************************)
(* Properties of the stash and free commands                               *)
(***************************************************************************)
\* the keys of the stash and free lines written so far
StashKeys == {wt.out[j].key : j \in {k \in DOMAIN wt.out : wt.out[k].cmd \in {"stash", "free"}}}

\* the number of lines of command cmd and key h among the first j lines
LinesOf(cmd, h, j) ==
    Cardinality({k \in 1..j : wt.out[k].cmd = cmd /\ wt.out[k].key = h})

\* the stash lines of key h less its free lines, among the first j lines
Live(h, j) == LinesOf("stash", h, j) - LinesOf("free", h, j)

\* the loop of WriteTransfers has ended well
Emitted == pc = "done" \/ (pc = "WriteTransfers" /\ wt.i > Len(transfers))

\* C31: for version >= 2, at every point of the list a key has been stashed
\* as often as it has been freed, or once more: a free line follows a stash
\* line of its key that no other free line has answered; between two
\* iterations of the loop stashed_blocks is not negative and not above
\* max_stashed_blocks; and when the loop has ended well, every stash line
\* has its free line, the stash table is empty and stashed_blocks is 0.
C31_StashesFreed ==
    version >= 2 =>
        /\ \A h \in StashKeys : \A j \in DOMAIN wt.out : Live(h, j) \in {0, 1}
        /\ wt.failure = "" =>
              /\ wt.stashed_blocks >= 0
              /\ wt.stashed_blocks <= wt.max_stashed_blocks
        /\ Emitted =>
              /\ \A h \in StashKeys : Live(h, Len(wt.out)) = 0
              /\ wt.stashes = EmptyDict
              /\ wt.hashes = EmptyDict
              /\ wt.stashed_blocks = 0

\* a run has ended well in which a key was stashed, other commands were
\* written while it was held, and it was freed after the command that used it
C31_Witness ==
    /\ pc = "done"
    /\ version >= 2
    /\ wt.max_stashed_blocks >= 1
    /\ wt.stashed_blocks = 0
    /\ \E i, j \in DOMAIN wt.out :
          /\ i + 2 < j
          /\ wt.out[i].cmd = "stash" /\ wt.out[j].cmd = "free"
          /\ wt.out[j].key = wt.out[i].key
          /\ wt.out[j - 1].cmd \in {"move", "bsdiff", "imgdiff", "zero"}

(***************************************************************************)
(* Properties of the stash slot ids                                        *)
(***************************************************************************)
\* the slot ids of the stashes that are made and not yet used
HeldIds == Range(wt.stashes)

\* the k-th smallest element of the set of integers S
RECURSIVE Smallest(_, _)
Smallest(S, k) == IF k = 1 THEN Min(S) ELSE Smallest(S \ {Min(S)}, k - 1)

\* the stashes that are live in the plan when the stash_before loop of the
\* t-th transfer has run
RECURSIVE LiveStashes(_)
LiveStashes(t) ==
    IF t = 0 THEN 0
    ELSE LiveStashes(t - 1)
            - (IF t = 1 THEN 0 ELSE Len(Xf(transfers[t - 1]).use_stash))
            + Len(Xf(transfers[t]).stash_before)

\* the slot count of the header, the third line of the transfer list
SlotCount == wt.out[3].key[1]

\* C32: the slot ids of the stashes made and not yet used are pairwise
\* distinct and none of them is on the free heap; the stashes of a transfer
\* take the ids of the free heap, the smallest first, and fresh ids
\* next_stash_id, next_stash_id + 1, ... only when the heap is used up; an
\* id comes onto the free heap only as the id of a stash that the transfer
\* uses; and the slot count of the header is the largest number of stashes
\* that are live at the same time.
C32_SlotIdsReused ==
    /\ [](version >= 2 =>
            /\ \A s, t \in DOMAIN wt.stashes : wt.stashes[s] = wt.stashes[t] => s = t
            /\ HeldIds \cap wt.free_stash_ids = {}
            /\ HeldIds \cup wt.free_stash_ids = 0..(wt.next_stash_id - 1)
            /\ pc = "done" =>
                  SlotCount = Max({LiveStashes(t) : t \in 0..Len(transfers)}))
    /\ [][(pc = "WriteTransfers" /\ version >= 2 /\ wt.i <= Len(transfers)
              /\ StashBefore(wt, Xf(transfers[wt.i]).stash_before, 1).failure = "") =>
            LET xf == Xf(transfers[wt.i])
                sb == xf.stash_before
                free == Cardinality(wt.free_stash_ids)
                used == {xf.use_stash[k][1] : k \in DOMAIN xf.use_stash}
            IN /\ \A k \in DOMAIN sb :
                     /\ sb[k][1] \in DOMAIN wt'.stashes
                     /\ wt'.stashes[sb[k][1]] =
                           IF k <= free THEN Smallest(wt.free_stash_ids, k)
                           ELSE wt.next_stash_id + (k - free - 1)
               /\ wt'.next_stash_id =
                     wt.next_stash_id + (IF Len(sb) > free THEN Len(sb) - free ELSE 0)
               /\ wt'.free_stash_ids \ wt.free_stash_ids
                     \subseteq {wt.stashes[s] : s \in used \cap DOMAIN wt.stashes}
               /\ \A s \in DOMAIN wt.stashes \ DOMAIN wt'.stashes :
                     s \in used /\ wt.stashes[s] \in wt'.free_stash_ids]_vars

\* a run has ended well with one slot that two stashes held one after the
\* other: the second stash took the id that the use of the first had freed
C32_Witness ==
    /\ pc = "done"
    /\ version >= 2
    /\ SlotCount = 1
    /\ Cardinality({t \in DOMAIN transfers : Xf(transfers[t]).stash_before # << >>}) >= 2
    /\ Cardinality({j \in DOMAIN wt.out : wt.out[j].cmd = "free"}) >= 2

(***************************************************************************)
(* Properties of the plan of an acyclic digraph                            *)
(***************************************************************************)
\* no edge of ById lies on a cycle: the transfers can be listed so that
\* every edge goes from left to right
Acyclic(ById) ==
    \E p \in Perms(DOMAIN ById) :
       \A i, j \in DOMAIN p :
          (p[j] - 1) \in Keys(ById[p[i]].goes_before) => i < j

\* the digraph that GenerateDigraph builds for the two images
Digraph == GenerateDigraphResult(FindTransfersFrom(1, << >>).by_id)

\* GenerateDigraph has run, and its digraph is acyclic
PlansAcyclic ==
    /\ pc \in {"FindVertexSequence", "RemoveBackwardEdges", "ReverseBackwardEdges",
               "ImproveVertexSequence", "ReviseStashSize", "AssertSequenceGood",
               "ComputePatches", "WriteTransfers", "done"}
    /\ Acyclic(Digraph)

\* C33: when the digraph of GenerateDigraph is acyclic, FindVertexSequence
\* drains every vertex as a sink or as a source and never comes to the pop
\* from the heap, it does not fail, and the order it records violates no
\* edge; ReverseBackwardEdges then changes no transfer and RemoveBackwardEdges
\* no src_ranges; no transfer ever has a stash, no stash or free line is
\* written, stashed_blocks stays 0 and the slot count of the header is 0.
C33_AcyclicNeedsNoStash ==
    /\ [](PlansAcyclic =>
            /\ vs.pc # "heap"
            /\ \A id \in Ids : /\ Xf(id).stash_before = << >>
                               /\ Xf(id).use_stash = << >>
            /\ pc # "FindVertexSequence" => ViolatedIn(by_id) = {}
            /\ wt.stashed_blocks = 0
            /\ CommandsOut \cap {"stash", "free"} = {}
            /\ (pc = "done" /\ version >= 2) => SlotCount = 0)
    /\ [][PlansAcyclic =>
            /\ (pc = "FindVertexSequence" => failure' = "")
            /\ (pc = "ReverseBackwardEdges" => by_id' = by_id /\ failure' = "")
            /\ (pc = "RemoveBackwardEdges" =>
                  /\ failure' = ""
                  /\ \A k \in DOMAIN by_id :
                        /\ by_id'[k].src_ranges = by_id[k].src_ranges
                        /\ by_id'[k].intact = by_id[k].intact)]_vars

\* a run has ended well on an acyclic digraph in which one transfer has to
\* go before a second and the second before a third
C33_Witness ==
    /\ pc = "done"
    /\ Acyclic(Digraph)
    /\ \E a, b, c \in Ids :
          /\ <<a, b>> \in EdgesOf(by_id)
          /\ <<b, c>> \in EdgesOf(by_id)

(***************************************************************************)
(* Properties of the commands of one transfer                              *)
(***************************************************************************)
\* the lines that the step appends to the list, and those among them that
\* are neither stash nor free lines
Written == SubSeq(wt'.out, Len(wt.out) + 1, Len(wt'.out))
CommandsWritten == SelectSeq(Written, LAMBDA l : l.cmd \notin {"stash", "free"})

\* the transfer is a move whose source is its target
MovesNothing(xf) == xf.style = "move" /\ xf.src_ranges = xf.tgt_ranges

\* the blocks that the stash lines of a list of lines save
RECURSIVE SavedBy(_)
SavedBy(lines) ==
    IF lines = << >> THEN 0
    ELSE (IF Head(lines).cmd = "stash" THEN Size(Head(lines).src) ELSE 0)
            + SavedBy(Tail(lines))

\* C34: in an iteration of the loop of WriteTransfers, a move whose
\* src_ranges are its tgt_ranges writes no command and leaves total as it
\* is; touched_src_ranges gains the blocks of the stash lines of its
\* stash_before only and max_stashed_blocks rises to the occupancy after
\* those stash lines at most, which are written and counted, as are the free
\* lines of its use_stash when the iteration ends well.  Every other move
\* and every bsdiff, imgdiff and new transfer whose iteration reaches the
\* test of the stash budget writes exactly one command, of its style and its
\* target, and adds |tgt_ranges| to total.
C34_OneCommandPerTransfer ==
    [][(pc = "WriteTransfers" /\ wt.i <= Len(transfers)
           /\ Xf(transfers[wt.i]).style \in {"move", "bsdiff", "imgdiff", "new"}) =>
          LET xf == Xf(transfers[wt.i])
              stashed == SelectSeq(Written, LAMBDA l : l.cmd = "stash")
              freed == SelectSeq(Written, LAMBDA l : l.cmd = "free")
              held == wt.stashed_blocks + SavedBy(Written)
          IN IF MovesNothing(xf)
             THEN /\ CommandsWritten = << >>
                  /\ wt'.total = wt.total
                  /\ wt'.touched_src_ranges =
                        wt.touched_src_ranges
                           \cup (IF version >= 3
                                 THEN UNION {stashed[k].src : k \in DOMAIN stashed}
                                 ELSE {})
                  /\ wt'.max_stashed_blocks =
                        IF held > wt.max_stashed_blocks THEN held
                        ELSE wt.max_stashed_blocks
                  /\ wt'.failure = "" =>
                        /\ version = 2 => Len(stashed) = Len(xf.stash_before)
                        /\ version = 2 => Len(freed) = Len(xf.use_stash)
                        /\ \A k \in DOMAIN stashed :
                              \E j \in DOMAIN xf.stash_before :
                                 stashed[k].src = xf.stash_before[j][2]
             ELSE wt'.failure \in {"", "StashBudget"} =>
                     /\ Len(CommandsWritten) = 1
                     /\ CommandsWritten[1].cmd = xf.style
                     /\ CommandsWritten[1].tgt = xf.tgt_ranges
                     /\ wt'.total = wt.total + Size(xf.tgt_ranges)]_vars

\* a run of version 1 has ended well: a move whose source is its target has
\* left no line and no block in total, next to a transfer that has left one
\* command
C34_Witness ==
    /\ pc = "done"
    /\ \E k, j \in DOMAIN transfers :
          /\ MovesNothing(Xf(transfers[k]))
          /\ Xf(transfers[j]).style \in {"move", "bsdiff", "imgdiff"}
          /\ ~MovesNothing(Xf(transfers[j]))
          /\ \A h \in DOMAIN wt.out :
                wt.out[h].tgt # Xf(transfers[k]).tgt_ranges
          /\ \E h \in DOMAIN wt.out :
                /\ wt.out[h].cmd = Xf(transfers[j]).style
                /\ wt.out[h].tgt = Xf(transfers[j]).tgt_ranges
          /\ wt.total = Size(Xf(transfers[j]).tgt_ranges)

(***************************************************************************)
(* ReviseStashSize step by step over the images of three domains of two    *)
(* blocks each, with a cache whose budget is one block and a half: one     *)
(* stash of a block fits and a second one does not.                        *)
(***************************************************************************)
InitTight ==
    /\ version \in 2..3
    /\ OPTIONS = [cache_size |-> <<16 * blocksize>>, stash_threshold |-> <<3, 32>>]
    /\ py3 = FALSE
    /\ threads = 1
    /\ tgt \in StashImages(1)
    /\ src \in StashImages(0)
    /\ pc = "AbbreviateSourceNames"
    /\ Start

SpecTight == InitTight /\ [][NextRevise]_vars

(***************************************************************************)
(* Properties of the stashed_blocks of the walk of ReviseStashSize         *)
(***************************************************************************)
\* the positions of the sequence that the walk has visited
Walked == 1..(rs.i - 1)

\* the stashes <<position, entry>> that, in the plan as the walk has revised
\* it, a visited transfer defines and no visited transfer uses
LiveInPlan ==
    {p \in UNION {{<<t, k>> : k \in DOMAIN Xf(transfers[t]).stash_before} :
                     t \in Walked} :
        \A u \in Walked :
           Xf(transfers[p[1]]).stash_before[p[2]][1]
              \notin StashIds(Xf(transfers[u]).use_stash)}

RECURSIVE SizeOfEntries(_)
SizeOfEntries(S) ==
    IF S = {} THEN 0
    ELSE LET p == CHOOSE q \in S : TRUE
         IN Size(Xf(transfers[p[1]]).stash_before[p[2]][2]) + SizeOfEntries(S \ {p})

\* C35: between the visits of the walk of ReviseStashSize the simulated
\* stashed_blocks is the total size of the stashes that, in the plan as
\* revised so far, a visited transfer defines and no visited transfer has
\* used; a stash whose user has been converted to new, and whose definition
\* has been removed, is not counted.
C35_SimulatedStashedBlocks ==
    (pc = "ReviseStashSize" /\ rs.pc = "walk") =>
        rs.stashed_blocks = SizeOfEntries(LiveInPlan)

=============================================================================
